---- MODULE Spec2Model ----
(***************************************************************************)
(* Streaming chat front-end: task-type resolution, the transport layer,    *)
(* the chat-agent chunk reducer and the streaming orchestrator with its    *)
(* non-streaming fallback (chat_service.py, model_serving_utils.py,        *)
(* app.py, messages.py).                                                   *)
(*                                                                         *)
(* Representation.  Python strings that are concatenated (message content, *)
(* tool-call arguments) are sequences of one-character strings.  Atoms     *)
(* (ids, roles, tokens, request ids) are TLA+ strings; the atom "None" is  *)
(* Python's None and the atom "" is the empty string.  Dicts and pydantic  *)
(* objects are records with one fixed set of fields; a key that a dict     *)
(* does not have holds the atom "Absent".                                  *)
(***************************************************************************)
EXTENDS Naturals, Sequences, FiniteSets, TLC

\* Number of raw units one stream may deliver before it ends or raises.
MaxStream == 3

\* Number of messages of the earlier assistant response of a session.
MaxMessages == 2

\* Number of feedback submissions in one session.
MaxFeedback == 2

\* Chat turns of one session.
MaxTurns == 2

\* Output items of one non-streaming ResponsesAgent response.
MaxItems == 2

None == "None"
Absent == "Absent"

\* Python truthiness of an atom: None, a missing key and "" are falsy.
Truthy(v) == v # None /\ v # Absent /\ v # ""

\* dict.get(key) on a field: a missing key reads as None.
Get(v) == IF v = Absent THEN None ELSE v

RECURSIVE Join(_)
\* "".join(parts)
Join(parts) == IF parts = <<>> THEN <<>> ELSE Head(parts) \o Join(Tail(parts))

IsPrefix(s, t) == Len(s) <= Len(t) /\ SubSeq(t, 1, Len(s)) = s

(***************************************************************************)
(* Messages, tool calls and chat-agent deltas.                             *)
(***************************************************************************)
Function(name, arguments) == [name |-> name, arguments |-> arguments]

ToolCall(id, name, arguments) ==
    [id |-> id, type |-> "function", function |-> Function(name, arguments)]

\* A ChatAgentMessage (the delta of a ChatAgentChunk).
ChatAgentMessage(role, content, id, tool_calls, tool_call_id) ==
    [role |-> role, content |-> content, id |-> id,
     tool_calls |-> tool_calls, tool_call_id |-> tool_call_id]

\* A normalized message dict {"role": ..., "content": ...} with optional keys.
Msg(role, content) ==
    [role |-> role, content |-> content, id |-> Absent,
     tool_calls |-> <<>>, tool_call_id |-> Absent]

\* ChatAgentMessage.model_dump_compat(exclude_none=True): None fields are
\* dropped from the dict (an unset tool_calls list is the empty sequence).
model_dump_compat(m) ==
    [role |-> m.role, content |-> m.content,
     id |-> IF m.id = None THEN Absent ELSE m.id,
     tool_calls |-> m.tool_calls,
     tool_call_id |-> IF m.tool_call_id = None THEN Absent ELSE m.tool_call_id]

(***************************************************************************)
(* reduce_chat_agent_chunks (chat_service.py 22-83).                       *)
(* tool_call_map is an insertion-ordered dict: a sequence of entries with  *)
(* distinct ids; updating an entry keeps its position.                     *)
(***************************************************************************)
HasCall(tool_call_map, call_id) ==
    \E i \in 1..Len(tool_call_map) : tool_call_map[i].id = call_id

CallIndex(tool_call_map, call_id) ==
    CHOOSE i \in 1..Len(tool_call_map) : tool_call_map[i].id = call_id

\* The loop body replacing the arguments of a call id it has seen before.
accumulate_tool_call_replace(tool_call_map, tool_call) ==
    LET call_id   == tool_call.id
        func_name == tool_call.function.name
        func_args == tool_call.function.arguments
    IN  IF ~Truthy(call_id) THEN tool_call_map
        ELSE IF ~HasCall(tool_call_map, call_id)
        THEN Append(tool_call_map,
                    [id |-> call_id, type |-> tool_call.type,
                     function |-> Function(func_name, func_args)])
        ELSE LET i == CallIndex(tool_call_map, call_id)
             IN  [tool_call_map EXCEPT
                    ![i].function.arguments = func_args,
                    ![i].function.name = IF Truthy(func_name) THEN func_name ELSE @]

\* The body of "for tool_call in delta.tool_calls" (lines 43-71).
accumulate_tool_call(tool_call_map, tool_call) ==
    LET call_id   == tool_call.id
        func_name == tool_call.function.name
        func_args == tool_call.function.arguments
    IN  IF ~Truthy(call_id) THEN tool_call_map
        ELSE IF ~HasCall(tool_call_map, call_id)
        THEN Append(tool_call_map,
                    [id |-> call_id, type |-> tool_call.type,
                     function |-> Function(func_name, func_args)])
        ELSE LET i == CallIndex(tool_call_map, call_id)
             IN  [tool_call_map EXCEPT
                    ![i].function.arguments = @ \o func_args,
                    ![i].function.name = IF Truthy(func_name) THEN func_name ELSE @]

RECURSIVE accumulate_tool_calls(_, _)
\* Lines 41-42: the loop over one delta's tool calls.
accumulate_tool_calls(tool_call_map, tool_calls) ==
    IF tool_calls = <<>> THEN tool_call_map
    ELSE accumulate_tool_calls(accumulate_tool_call(tool_call_map, Head(tool_calls)),
                               Tail(tool_calls))

RECURSIVE reduce_loop_first_wins(_, _)
\* The loop keeping the first tool_call_id it is given.
reduce_loop_first_wins(deltas, k) ==
    IF k = 0
    THEN [result_msg |-> deltas[1], msg_contents |-> <<>>, tool_call_map |-> <<>>]
    ELSE LET s     == reduce_loop_first_wins(deltas, k - 1)
             delta == deltas[k]
         IN  [msg_contents  |-> IF delta.content # <<>>
                                THEN Append(s.msg_contents, delta.content)
                                ELSE s.msg_contents,
              tool_call_map |-> accumulate_tool_calls(s.tool_call_map, delta.tool_calls),
              result_msg    |-> IF Truthy(delta.tool_call_id)
                                   /\ ~Truthy(s.result_msg.tool_call_id)
                                THEN [s.result_msg EXCEPT !.tool_call_id = delta.tool_call_id]
                                ELSE s.result_msg]

RECURSIVE reduce_loop(_, _)
\* The state of the "for delta in deltas" loop (lines 27-75) after k deltas.
reduce_loop(deltas, k) ==
    IF k = 0
    THEN [result_msg |-> deltas[1], msg_contents |-> <<>>, tool_call_map |-> <<>>]
    ELSE LET s     == reduce_loop(deltas, k - 1)
             delta == deltas[k]
         IN  [msg_contents  |-> IF delta.content # <<>>
                                THEN Append(s.msg_contents, delta.content)
                                ELSE s.msg_contents,
              tool_call_map |-> accumulate_tool_calls(s.tool_call_map, delta.tool_calls),
              result_msg    |-> IF Truthy(delta.tool_call_id)
                                THEN [s.result_msg EXCEPT !.tool_call_id = delta.tool_call_id]
                                ELSE s.result_msg]

\* chunks is a non-empty sequence of ChatAgentChunk records [delta |-> ...].
reduce_chat_agent_chunks(chunks) ==
    LET deltas == [i \in 1..Len(chunks) |-> chunks[i].delta]
        s      == reduce_loop(deltas, Len(deltas))
        withCalls == IF s.tool_call_map # <<>>
                     THEN [s.result_msg EXCEPT !.tool_calls = s.tool_call_map]
                     ELSE s.result_msg
    IN  [withCalls EXCEPT !.content = Join(s.msg_contents)]

(***************************************************************************)
(* Endpoint metadata lookup (model_serving_utils.py 32-73).                *)
(* A lookup outcome is what the workspace client does: constructing the    *)
(* client raises, serving_endpoints.get raises, or the endpoint reports a  *)
(* task (None or "" when it reports none).                                 *)
(***************************************************************************)
ChatCompletions == "chat/completions"
ChatAgent == "agent/v2/chat"
ResponsesAgent == "agent/v1/responses"

LookupOutcomes ==
    {[raises |-> "client", task |-> None],
     [raises |-> "get", task |-> None],
     [raises |-> "no", task |-> None],
     [raises |-> "no", task |-> ""],
     [raises |-> "no", task |-> ChatCompletions],
     [raises |-> "no", task |-> ChatAgent],
     [raises |-> "no", task |-> ResponsesAgent]}

\* The result of a lookup: it raises, or returns a task type.
LookupRaised == [raises |-> TRUE, task |-> None]

LookupReturned(task) == [raises |-> FALSE, task |-> task]

\* The lookup with the client built outside the try.
_get_endpoint_task_type_unguarded(outcome) ==
    IF outcome.raises = "client" THEN LookupRaised
    ELSE IF outcome.raises = "get" THEN LookupReturned(ChatCompletions)
    ELSE IF Truthy(outcome.task) THEN LookupReturned(outcome.task)
    ELSE LookupReturned(ChatCompletions)

\* try: w = ...; ep = w.serving_endpoints.get(endpoint_name)
\*      return ep.task if ep.task else "chat/completions"
\* except Exception: return "chat/completions"
_get_endpoint_task_type(outcome) ==
    IF outcome.raises # "no" THEN LookupReturned(ChatCompletions)
    ELSE IF Truthy(outcome.task) THEN LookupReturned(outcome.task)
    ELSE LookupReturned(ChatCompletions)

(***************************************************************************)
(* Raw units on the wire.  shape is the top-level key the JSON object has  *)
(* ("choices", "delta", "type"), "foo" for an object with none of them and *)
(* "badjson" for a line that is not JSON.  databricks_request_id is Absent *)
(* when the unit has no databricks_output.                                 *)
(***************************************************************************)
NoDelta == ChatAgentMessage(None, <<>>, None, <<>>, None)

NoItem ==
    [type |-> None, content |-> <<>>, call_id |-> None, name |-> None,
     arguments |-> <<>>, output |-> <<>>]

OutputText(text) == [type |-> "output_text", text |-> text]

MessageItem(parts) == [NoItem EXCEPT !.type = "message", !.content = parts]

FunctionCallItem(call_id, name, arguments) ==
    [NoItem EXCEPT !.type = "function_call", !.call_id = call_id, !.name = name,
                   !.arguments = arguments]

FunctionCallOutputItem(call_id, output) ==
    [NoItem EXCEPT !.type = "function_call_output", !.call_id = call_id,
                   !.output = output]

RawUnit(shape, choices, delta, type, item, req) ==
    [shape |-> shape, choices |-> choices, delta |-> delta, type |-> type,
     item |-> item, databricks_request_id |-> req]

\* {"choices": [{"delta": {"content": c}}, ...]}: choices holds each choice's
\* delta content.
ChoicesUnit(choices, req) == RawUnit("choices", choices, NoDelta, None, NoItem, req)

\* {"delta": {...}}
DeltaUnit(delta, req) == RawUnit("delta", <<>>, delta, None, NoItem, req)

\* {"type": t, "item": {...}}
EventUnit(type, item, req) == RawUnit("type", <<>>, NoDelta, type, item, req)

FooUnit == RawUnit("foo", <<>>, NoDelta, None, NoItem, Absent)

BadJsonUnit == RawUnit("badjson", <<>>, NoDelta, None, NoItem, Absent)

ItemDone == "response.output_item.done"

\* The units a stream of the orchestrator specification may deliver.
RawUnits ==
    {ChoicesUnit(<< <<"a">> >>, Absent),
     ChoicesUnit(<< <<>> >>, "r1"),
     DeltaUnit(ChatAgentMessage("assistant", <<"a">>, "m1", <<>>, None), "r3"),
     DeltaUnit(ChatAgentMessage("assistant", <<"b">>, "m2", <<>>, None), "r1"),
     EventUnit(ItemDone, MessageItem(<<OutputText(<<"a">>), OutputText(<<"b">>)>>), "r1"),
     EventUnit(ItemDone, FunctionCallItem("c1", "f", <<"x">>), "r3"),
     FooUnit,
     BadJsonUnit}

(***************************************************************************)
(* Request building for the responses protocol (model_serving_utils.py     *)
(* 75-115).  An input item has one fixed set of fields; content is the     *)
(* string of a user item and parts the content list of a message item.     *)
(***************************************************************************)
NoInputItem ==
    [type |-> Absent, role |-> Absent, id |-> Absent, call_id |-> Absent,
     name |-> Absent, arguments |-> <<>>, content |-> <<>>, parts |-> <<>>,
     output |-> <<>>]

\* str(uuid.uuid4()): the id given to a message item whose message has none.
FreshId == "uuid4"

\* {"role": "user", "content": msg["content"]}
UserInputItem(msg) == [NoInputItem EXCEPT !.role = "user", !.content = msg.content]

\* The function_call item given a fresh call_id instead of the tool call's id.
FunctionCallInputItem_fresh_call_id(tool_call) ==
    [NoInputItem EXCEPT !.type = "function_call", !.id = tool_call.id,
                        !.call_id = FreshId, !.name = tool_call.function.name,
                        !.arguments = tool_call.function.arguments]

\* {"type": "function_call", "id": ..., "call_id": ..., "name": ..., "arguments": ...}
FunctionCallInputItem(tool_call) ==
    [NoInputItem EXCEPT !.type = "function_call", !.id = tool_call.id,
                        !.call_id = tool_call.id, !.name = tool_call.function.name,
                        !.arguments = tool_call.function.arguments]

\* {"type": "message", "id": msg.get("id", uuid), "content": [output_text], "role": "assistant"}
MessageInputItem(msg) ==
    [NoInputItem EXCEPT !.type = "message",
                        !.id = IF msg.id = Absent THEN FreshId ELSE msg.id,
                        !.parts = <<OutputText(msg.content)>>, !.role = "assistant"]

\* {"type": "function_call_output", "call_id": msg.get("tool_call_id"), "output": ...}
FunctionCallOutputInputItem(msg) ==
    [NoInputItem EXCEPT !.type = "function_call_output",
                        !.call_id = Get(msg.tool_call_id), !.output = msg.content]

\* The loop body with the message item put before the function calls.
convert_message_content_first(msg) ==
    IF msg.role = "user" THEN <<UserInputItem(msg)>>
    ELSE IF msg.role = "assistant"
    THEN IF msg.tool_calls # <<>>
         THEN (IF msg.content # <<>> THEN <<MessageInputItem(msg)>> ELSE <<>>)
              \o [i \in 1..Len(msg.tool_calls) |-> FunctionCallInputItem(msg.tool_calls[i])]
         ELSE <<MessageInputItem(msg)>>
    ELSE IF msg.role = "tool" THEN <<FunctionCallOutputInputItem(msg)>>
    ELSE <<>>

\* The body of "for msg in messages" (lines 79-114): the items one message
\* appends to input_messages.
convert_message(msg) ==
    IF msg.role = "user" THEN <<UserInputItem(msg)>>
    ELSE IF msg.role = "assistant"
    THEN IF msg.tool_calls # <<>>
         THEN [i \in 1..Len(msg.tool_calls) |-> FunctionCallInputItem(msg.tool_calls[i])]
              \o (IF msg.content # <<>> THEN <<MessageInputItem(msg)>> ELSE <<>>)
         ELSE <<MessageInputItem(msg)>>
    ELSE IF msg.role = "tool" THEN <<FunctionCallOutputInputItem(msg)>>
    ELSE <<>>

RECURSIVE _convert_to_responses_format(_)
_convert_to_responses_format(messages) ==
    IF messages = <<>> THEN <<>>
    ELSE convert_message(Head(messages)) \o _convert_to_responses_format(Tail(messages))

\* What the transport puts in the request for the task type it looked up:
\* "input" built from the messages for the responses protocol (lines 213-217,
\* 332-336), the messages themselves otherwise (lines 150-152, 276).
request_input(task, messages) ==
    IF task = ResponsesAgent THEN _convert_to_responses_format(messages)
    ELSE messages

(***************************************************************************)
(* Feedback (model_serving_utils.py 415-451).  A rating is an atom: None,  *)
(* or the number the widget reports written as a string.                   *)
(***************************************************************************)
\* json.dumps(value): the JSON text of the value.
JsonDumps(value) == [json |-> value]

\* {"ratings": {"answer_correct": {"value": v}}, "free_text_comment": None}
TextAssessment(value) == [answer_correct |-> value, free_text_comment |-> None]

NoFeedback == [request_id |-> None, rating |-> None, body |-> <<>>]

\* The mapping with every rating but 0 taken as positive.
submit_feedback_zero_negative(endpoint, req, rating, token) ==
    LET rating_string == IF rating # "0" THEN "positive" ELSE "negative"
        text_assessments == IF rating = None THEN <<>>
                            ELSE <<TextAssessment(rating_string)>>
    IN  [request_id |-> req, rating |-> rating,
         body |-> << [source |-> JsonDumps([id |-> "e2e-chatbot-app", type |-> "human"]),
                      request_id |-> req,
                      text_assessments |-> JsonDumps(text_assessments),
                      retrieval_assessments |-> JsonDumps(<<>>)] >>]

\* submit_feedback, lines 425-445: the request id and the rating it was
\* given and the proxy_payload it posts ("dataframe_records" holds one
\* record).
submit_feedback(endpoint, req, rating, token) ==
    LET rating_string == IF rating = "1" THEN "positive" ELSE "negative"
        text_assessments == IF rating = None THEN <<>>
                            ELSE <<TextAssessment(rating_string)>>
    IN  [request_id |-> req, rating |-> rating,
         body |-> << [source |-> JsonDumps([id |-> "e2e-chatbot-app", type |-> "human"]),
                      request_id |-> req,
                      text_assessments |-> JsonDumps(text_assessments),
                      retrieval_assessments |-> JsonDumps(<<>>)] >>]

(***************************************************************************)
(* Streaming transport (model_serving_utils.py 120-241): what one unit     *)
(* read off the wire does to the generator that query_endpoint_stream      *)
(* returned for the task type it looked up.                                *)
(***************************************************************************)
\* _query_chat_endpoint_stream, lines 156-200.  With a user token each line
\* is parsed here: a line json.loads rejects is skipped, and so is an object
\* with neither "choices" nor "delta".  Without one the deployment client
\* parses the line (and raises on a line that is not JSON) and an object
\* with neither key raises.
_query_chat_endpoint_stream(user_token, u) ==
    IF Truthy(user_token)
    THEN IF u.shape = "badjson" THEN "skip"
         ELSE IF u.shape \in {"choices", "delta"} THEN "yield" ELSE "skip"
    ELSE IF u.shape = "badjson" THEN "raise"
         ELSE IF u.shape \in {"choices", "delta"} THEN "yield" ELSE "raise"

\* _query_responses_endpoint_stream, lines 224-241: every decoded unit is
\* yielded as it is; the client raises on a line it cannot decode.
_query_responses_endpoint_stream(user_token, u) ==
    IF u.shape = "badjson" THEN "raise" ELSE "yield"

\* What the generator selected by query_endpoint_stream (lines 131-136) does
\* with unit u.
stream_step(task, user_token, u) ==
    IF task = ResponsesAgent
    THEN _query_responses_endpoint_stream(user_token, u)
    ELSE _query_chat_endpoint_stream(user_token, u)

(***************************************************************************)
(* Non-streaming transport (model_serving_utils.py 243-413).  A response   *)
(* is what the endpoint answers to the one POST: shape "error" stands for  *)
(* a call that raises (network or HTTP error), otherwise shape is the      *)
(* top-level key the JSON object has.  content_kind is the Python type of  *)
(* choices[0].message.content.                                             *)
(***************************************************************************)
Response(shape, messages, role, content_kind, content, parts, output, req) ==
    [shape |-> shape, messages |-> messages, role |-> role,
     content_kind |-> content_kind, content |-> content, parts |-> parts,
     output |-> output, databricks_request_id |-> req]

ErrorResponse == Response("error", <<>>, None, None, <<>>, <<>>, <<>>, Absent)

FooResponse == Response("foo", <<>>, None, None, <<>>, <<>>, <<>>, Absent)

MessagesResponse(messages, req) ==
    Response("messages", messages, None, None, <<>>, <<>>, <<>>, req)

ChoicesStrResponse(role, content, req) ==
    Response("choices", <<>>, role, "str", content, <<>>, <<>>, req)

ChoicesListResponse(role, parts, req) ==
    Response("choices", <<>>, role, "list", <<>>, parts, <<>>, req)

ChoicesNoneResponse(role, req) ==
    Response("choices", <<>>, role, "none", <<>>, <<>>, <<>>, req)

OutputResponse(output, req) ==
    Response("output", <<>>, None, None, <<>>, <<>>, output, req)

\* The result of a call: it raises, or returns (messages, request_id).
Raised == [raises |-> TRUE, messages |-> <<>>, request_id |-> None]

Returned(messages, request_id) ==
    [raises |-> FALSE, messages |-> messages, request_id |-> request_id]

RECURSIVE TextOf(_, _)
\* "".join of the text of the parts whose type is kind.
TextOf(parts, kind) ==
    IF parts = <<>> THEN <<>>
    ELSE (IF Head(parts).type = kind THEN Head(parts).text ELSE <<>>)
         \o TextOf(Tail(parts), kind)

\* _query_chat_endpoint, lines 297-317.
_query_chat_endpoint(res) ==
    LET request_id == Get(res.databricks_request_id)
    IN  IF res.shape = "error" THEN Raised
        ELSE IF res.shape = "messages" THEN Returned(res.messages, request_id)
        ELSE IF res.shape = "choices" /\ res.content_kind = "list"
        THEN Returned(<<Msg(res.role, TextOf(res.parts, "text"))>>, request_id)
        ELSE IF res.shape = "choices" /\ res.content_kind = "str"
        THEN Returned(<<Msg(res.role, res.content)>>, request_id)
        ELSE Raised

\* One output item of a ResponsesAgent response (lines 364-411): the
\* messages it adds to result_messages.
parse_output_item(item) ==
    IF item.type = "message"
    THEN LET text_content == TextOf(item.content, "output_text")
         IN  IF text_content # <<>> THEN <<Msg("assistant", text_content)>> ELSE <<>>
    ELSE IF item.type = "function_call"
    THEN << [Msg("assistant", <<>>) EXCEPT
               !.tool_calls = <<ToolCall(item.call_id, item.name, item.arguments)>>] >>
    ELSE IF item.type = "function_call_output"
    THEN << [Msg("tool", item.output) EXCEPT !.tool_call_id = item.call_id] >>
    ELSE <<>>

RECURSIVE parse_output_items(_)
parse_output_items(output_items) ==
    IF output_items = <<>> THEN <<>>
    ELSE parse_output_item(Head(output_items)) \o parse_output_items(Tail(output_items))

NoResponseFound == <<Msg("assistant", <<"N", "o">>)>>

\* _query_responses_endpoint, lines 357-413: response.get("output", []) is
\* empty when the object has no output.
_query_responses_endpoint(res) ==
    LET request_id     == Get(res.databricks_request_id)
        output_items   == IF res.shape = "output" THEN res.output ELSE <<>>
        result_messages == parse_output_items(output_items)
    IN  IF res.shape = "error" THEN Raised
        ELSE Returned(IF result_messages # <<>> THEN result_messages ELSE NoResponseFound,
                      request_id)

\* query_endpoint, lines 256-261, for the task type it looked up.
query_endpoint(task, res) ==
    IF task = ResponsesAgent THEN _query_responses_endpoint(res)
    ELSE _query_chat_endpoint(res)

\* The responses the fallback call of the orchestrator specification may get.
Responses ==
    {ErrorResponse,
     FooResponse,
     MessagesResponse(<<Msg("assistant", <<"z">>)>>, "r2"),
     ChoicesStrResponse("assistant", <<"y">>, Absent),
     ChoicesNoneResponse("assistant", "r2"),
     OutputResponse(<<MessageItem(<<OutputText(<<"z">>)>>)>>, "r2")}

(***************************************************************************)
(* State of one session.                                                   *)
(***************************************************************************)
VARIABLES
    service,              \* ChatService: endpoint_name, supports_feedback
    history,              \* st.session_state.history
    pc,                   \* position of the chat input handler
    user_token,           \* credential of the turn
    task_type,            \* task type resolved by the chat input handler
    input_messages,       \* messages passed to query_and_process
    lookup,               \* the lookup just made: its outcome and result
    stream_task,          \* task type query_endpoint_stream looked up
    consumed,             \* number of raw units read off the wire
    yielded,              \* number of units the generator has yielded
    last_unit,            \* the raw unit read last
    received,             \* the units the generator has yielded, in order
    accumulated_content,  \* local of _query_chat_completions_endpoint
    request_id,           \* local of the three handlers
    message_buffers,      \* local of _query_chat_agent_endpoint
    all_messages,         \* local of _query_responses_endpoint
    exc,                  \* the exception raised inside the handler's try
    events,               \* phases given to the sink and transport calls, in order
    response,             \* AssistantResponse returned by query_and_process
    sink_raised           \* the render callback has raised in this turn

vars ==
    <<service, history, pc, user_token, task_type, input_messages, lookup,
      stream_task, consumed, yielded, last_unit, received, accumulated_content,
      request_id, message_buffers, all_messages, exc, events, response, sink_raised>>

turn_inputs == <<user_token, task_type, input_messages>>

wire == <<stream_task, consumed, yielded, last_unit, received>>

handler_locals == <<accumulated_content, request_id, message_buffers, all_messages>>

SERVING_ENDPOINT == "ep"

Tokens == {None, "tok"}

NoOutcome == [raises |-> "no", task |-> None]

NoService == [endpoint_name |-> None, supports_feedback |-> FALSE]

NoLookup == [made |-> FALSE, outcome |-> NoOutcome, result |-> LookupReturned(None),
             service |-> NoService]

\* A lookup with the given outcome, made with the service as it is now.
Lookup(outcome) ==
    [made |-> TRUE, outcome |-> outcome, result |-> _get_endpoint_task_type(outcome),
     service |-> service]

\* No exception; an exception raised in the try after n yielded fragments.
NoExc == [raised |-> FALSE, fragments |-> 0, by_sink |-> FALSE]

Exc(n, by_sink) == [raised |-> TRUE, fragments |-> n, by_sink |-> by_sink]

\* History elements (messages.py): a UserMessage or an AssistantResponse.
UserMessage(content) ==
    [kind |-> "user", content |-> content, messages |-> <<>>,
     request_id |-> None, user_token |-> None]

AssistantResponse(messages, req, token) ==
    [kind |-> "assistant", content |-> <<>>, messages |-> messages,
     request_id |-> req, user_token |-> token]

NoResponse == AssistantResponse(<<>>, None, None)

\* UserMessage.to_input_messages / AssistantResponse.to_input_messages
to_input_messages(elem) ==
    IF elem.kind = "user" THEN <<Msg("user", elem.content)>> ELSE elem.messages

RECURSIVE Flatten(_)
\* [msg for elem in history for msg in elem.to_input_messages()] (app.py 130-134)
Flatten(h) ==
    IF h = <<>> THEN <<>> ELSE to_input_messages(Head(h)) \o Flatten(Tail(h))

\* No answer: the event is not a non-streaming request.
NoAnswer == Response(None, <<>>, None, None, <<>>, <<>>, <<>>, Absent)

\* Events: a phase given to the render callback, or a call the transport
\* makes (kind "lookup", "stream", "query" or "feedback"; messages is the argument of
\* the call, input what the request carries for them, raised tells whether
\* the call raised).
NoMsg == Msg(None, <<>>)

NoData == [content |-> <<>>, messages |-> <<>>, message_id |-> None, message |-> NoMsg]

Phase(phase, data) ==
    [ev |-> "phase", phase |-> phase, data |-> data, task |-> None,
     endpoint_name |-> None, messages |-> <<>>, input |-> <<>>,
     return_traces |-> FALSE, user_token |-> None, raised |-> FALSE,
     feedback |-> NoFeedback, answer |-> NoAnswer]

Call(kind, task, endpoint_name, messages, return_traces, token, raised) ==
    [ev |-> kind, phase |-> None, data |-> NoData, task |-> task,
     endpoint_name |-> endpoint_name, messages |-> messages,
     input |-> request_input(task, messages),
     return_traces |-> return_traces, user_token |-> token, raised |-> raised,
     feedback |-> NoFeedback, answer |-> NoAnswer]

\* The POST of submit_feedback (lines 446-451) to the feedback route of the
\* endpoint, made with the client of the token; raised tells whether
\* building the client or the POST raised.
FeedbackCall(endpoint, req, rating, token, raised) ==
    [Call("feedback", None, endpoint, <<>>, FALSE, token, raised) EXCEPT
        !.feedback = submit_feedback(endpoint, req, rating, token)]

\* Sessions the chat input handler can find: a fresh one, and one that holds
\* an earlier exchange.
InitHistories ==
    {<<>>,
     <<UserMessage(<<"h">>), AssistantResponse(<<Msg("assistant", <<"i">>)>>, "r0", None)>>}

Prompts == {<<"p">>}

Init ==
    /\ service \in {[endpoint_name |-> SERVING_ENDPOINT, supports_feedback |-> b] :
                      b \in BOOLEAN}
    /\ history \in InitHistories
    /\ pc = "idle"
    /\ user_token = None
    /\ task_type = None
    /\ input_messages = <<>>
    /\ lookup = NoLookup
    /\ stream_task = None
    /\ consumed = 0
    /\ yielded = 0
    /\ last_unit = FooUnit
    /\ received = <<>>
    /\ accumulated_content = <<>>
    /\ request_id = None
    /\ message_buffers = <<>>
    /\ all_messages = <<>>
    /\ exc = NoExc
    /\ events = <<>>
    /\ response = NoResponse
    /\ sink_raised = FALSE

(***************************************************************************)
(* The chat input handler (app.py 116-148) up to its call of               *)
(* query_and_process.                                                      *)
(***************************************************************************)
\* ChatService.get_task_type (chat_service.py 100-110)
get_task_type(outcome) == _get_endpoint_task_type(outcome)

\* The chat input handler flattening the history before it appends the
\* user message.
ChatInput_flatten_first(prompt, token, outcome) ==
    /\ pc = "idle"
    /\ user_token' = token
    /\ lookup' = [Lookup(outcome) EXCEPT !.result = get_task_type(outcome)]
    /\ IF get_task_type(outcome).raises
       THEN /\ pc' = "raised"
            /\ UNCHANGED <<task_type, history, input_messages>>
       ELSE /\ task_type' = get_task_type(outcome).task
            /\ history' = Append(history, UserMessage(prompt))
            /\ input_messages' = Flatten(history)
            /\ pc' = "call"
    /\ UNCHANGED <<service, wire, handler_locals, exc, events, response, sink_raised>>

\* app.py 119-137: the token is read, the task type resolved, the user
\* message appended and the history flattened.  An exception of
\* get_task_type would end the script run before the append.
ChatInput(prompt, token, outcome) ==
    /\ pc = "idle"
    /\ user_token' = token
    /\ lookup' = [Lookup(outcome) EXCEPT !.result = get_task_type(outcome)]
    /\ IF get_task_type(outcome).raises
       THEN /\ pc' = "raised"
            /\ UNCHANGED <<task_type, history, input_messages>>
       ELSE /\ task_type' = get_task_type(outcome).task
            /\ history' = Append(history, UserMessage(prompt))
            /\ input_messages' = Flatten(history')
            /\ pc' = "call"
    /\ UNCHANGED <<service, wire, handler_locals, exc, events, response, sink_raised>>

\* The handler query_and_process dispatches to (chat_service.py 127-132).
handler_of(task) ==
    IF task = ResponsesAgent THEN "responses"
    ELSE IF task = ChatAgent THEN "chat_agent"
    ELSE "chat_completions"

\* The handler entered without giving 'start' to the sink.
query_and_process_no_start(sink_raises) ==
    /\ pc = "call"
    /\ ~sink_raises
    /\ accumulated_content' = <<>>
    /\ request_id' = None
    /\ message_buffers' = <<>>
    /\ all_messages' = <<>>
    /\ lookup' = NoLookup
    /\ pc' = "open"
    /\ UNCHANGED <<service, history, turn_inputs, wire, exc, events, response,
                   sink_raised>>

\* query_and_process enters the handler, which gives 'start' to the sink
\* and initialises its locals (lines 137-141, 193-197, 268-272).  A sink that
\* raises here is outside the handler's try.
query_and_process(sink_raises) ==
    /\ pc = "call"
    /\ events' = Append(events, Phase("start", NoData))
    /\ accumulated_content' = <<>>
    /\ request_id' = None
    /\ message_buffers' = <<>>
    /\ all_messages' = <<>>
    /\ lookup' = NoLookup
    /\ sink_raised' = (sink_raised \/ sink_raises)
    /\ pc' = IF sink_raises THEN "raised" ELSE "open"
    /\ UNCHANGED <<service, history, turn_inputs, wire, exc, response>>

\* query_endpoint_stream (model_serving_utils.py 120-136), called inside
\* the try: looks the task type up and returns the generator for it; the
\* loop's first advance of the generator issues the request.
query_endpoint_stream(outcome) ==
    /\ pc = "open"
    /\ lookup' = Lookup(outcome)
    /\ LET result == _get_endpoint_task_type(outcome)
           looked == Call("lookup", None, service.endpoint_name, <<>>, FALSE,
                          user_token, result.raises)
       IN  IF result.raises
           THEN /\ events' = Append(events, looked)
                /\ exc' = Exc(0, FALSE)
                /\ pc' = "except"
                /\ UNCHANGED stream_task
           ELSE /\ events' = events \o
                      <<looked,
                        Call("stream", result.task, service.endpoint_name,
                             input_messages, service.supports_feedback, user_token, FALSE)>>
                /\ stream_task' = result.task
                /\ pc' = "streaming"
                /\ UNCHANGED exc
    /\ UNCHANGED <<service, history, turn_inputs, consumed, yielded, last_unit,
                   received, handler_locals, response, sink_raised>>

(***************************************************************************)
(* The streaming loops of the three handlers.  One action is one advance   *)
(* of the generator together with the loop body it feeds.                  *)
(***************************************************************************)
\* The request id kept from the first chunk that carries one.
next_request_id_first(rid, u) ==
    IF Truthy(u.databricks_request_id) /\ ~Truthy(rid) THEN u.databricks_request_id
    ELSE rid

\* req_id = chunk["databricks_output"].get("databricks_request_id");
\* if req_id: request_id = req_id
next_request_id(rid, u) ==
    IF Truthy(u.databricks_request_id) THEN u.databricks_request_id ELSE rid

\* The content read from the last choice of the chunk.
delta_content_last(u) ==
    IF u.shape = "choices" /\ u.choices # <<>> THEN u.choices[Len(u.choices)] ELSE <<>>

\* chunk["choices"][0].get("delta", {}).get("content", "") when the chunk
\* has a non-empty "choices" (chat_service.py 150-152).
delta_content(u) ==
    IF u.shape = "choices" /\ u.choices # <<>> THEN u.choices[1] ELSE <<>>

ContentData(content) == [NoData EXCEPT !.content = content]

MessagesData(messages) == [NoData EXCEPT !.messages = messages]

\* The generator yields unit u to the loop of the running handler.
Yields(handler, u) ==
    /\ pc = "streaming"
    /\ handler_of(task_type) = handler
    /\ consumed < MaxStream
    /\ stream_step(stream_task, user_token, u) = "yield"
    /\ consumed' = consumed + 1
    /\ yielded' = yielded + 1
    /\ last_unit' = u
    /\ received' = Append(received, u)
    /\ lookup' = NoLookup
    /\ UNCHANGED <<service, history, turn_inputs, stream_task, response>>

\* The loop body ends: normally, or with an exception caught by the try.
BodyEnds(raises, sink_raises) ==
    /\ sink_raised' = (sink_raised \/ sink_raises)
    /\ pc' = IF raises \/ sink_raises THEN "except" ELSE "streaming"
    /\ exc' = IF raises \/ sink_raises THEN Exc(yielded + 1, sink_raises) ELSE exc

\* The loop body giving a chunk phase for every chunk, with or without
\* content.
StreamChunkChatCompletions_every(u, sink_raises) ==
    /\ Yields("chat_completions", u)
    /\ LET content == delta_content(u)
       IN  /\ accumulated_content' = accumulated_content \o content
           /\ events' = Append(events,
                               Phase("chunk", ContentData(accumulated_content \o content)))
    /\ request_id' = IF sink_raises THEN request_id ELSE next_request_id(request_id, u)
    /\ BodyEnds(FALSE, sink_raises)
    /\ UNCHANGED <<message_buffers, all_messages>>

\* Lines 150-161 of _query_chat_completions_endpoint on a yielded chunk.
StreamChunkChatCompletions(u, sink_raises) ==
    /\ Yields("chat_completions", u)
    /\ LET content == delta_content(u)
       IN  /\ sink_raises => content # <<>>
           /\ accumulated_content' = accumulated_content \o content
           /\ events' = IF content # <<>>
                        THEN Append(events,
                                    Phase("chunk", ContentData(accumulated_content \o content)))
                        ELSE events
    /\ request_id' = IF sink_raises THEN request_id ELSE next_request_id(request_id, u)
    /\ BodyEnds(FALSE, sink_raises)
    /\ UNCHANGED <<message_buffers, all_messages>>

\* ChatAgentChunk.model_validate(raw_chunk) accepts a unit with a delta
\* that carries a message id.
valid_chat_agent_chunk(u) == u.shape = "delta" /\ Truthy(u.delta.id)

HasBuffer(buffers, message_id) ==
    \E i \in 1..Len(buffers) : buffers[i].id = message_id

\* The buffer of an identity seen again moved behind the others.
buffer_append_move(buffers, message_id, chunk) ==
    IF HasBuffer(buffers, message_id)
    THEN LET Other(b) == b.id # message_id
             old == buffers[CHOOSE i \in 1..Len(buffers) : buffers[i].id = message_id]
         IN  Append(SelectSeq(buffers, Other),
                    [old EXCEPT !.chunks = Append(@, chunk)])
    ELSE Append(buffers, [id |-> message_id, chunks |-> <<chunk>>])

\* message_buffers[message_id].append(chunk), creating the list on the
\* first chunk of that id (lines 214-217); an OrderedDict keeps first
\* insertion order.
buffer_append(buffers, message_id, chunk) ==
    IF HasBuffer(buffers, message_id)
    THEN [i \in 1..Len(buffers) |->
            IF buffers[i].id = message_id
            THEN [buffers[i] EXCEPT !.chunks = Append(@, chunk)]
            ELSE buffers[i]]
    ELSE Append(buffers, [id |-> message_id, chunks |-> <<chunk>>])

\* The partial message reduced from the newest chunk of the identity alone.
buffer_of_last_chunk(buffers, message_id) ==
    LET chunks == buffers[CHOOSE i \in 1..Len(buffers) : buffers[i].id = message_id].chunks
    IN  <<chunks[Len(chunks)]>>

buffer_of(buffers, message_id) ==
    buffers[CHOOSE i \in 1..Len(buffers) : buffers[i].id = message_id].chunks

\* The reduced messages listed from the newest identity to the oldest.
reduce_all_newest_first(buffers) ==
    [i \in 1..Len(buffers) |->
        model_dump_compat(reduce_chat_agent_chunks(buffers[Len(buffers) + 1 - i].chunks))]

\* [reduce_chat_agent_chunks(chunks).model_dump_compat(exclude_none=True)
\*  for chunks in message_buffers.values()]
reduce_all(buffers) ==
    [i \in 1..Len(buffers) |->
        model_dump_compat(reduce_chat_agent_chunks(buffers[i].chunks))]

\* Lines 206-231 of _query_chat_agent_endpoint on a yielded chunk.
StreamChunkChatAgent(u, sink_raises) ==
    /\ Yields("chat_agent", u)
    /\ sink_raises => valid_chat_agent_chunk(u)
    /\ IF valid_chat_agent_chunk(u)
       THEN LET message_id == u.delta.id
                buffers    == buffer_append(message_buffers, message_id, [delta |-> u.delta])
                partial_message == reduce_chat_agent_chunks(buffer_of(buffers, message_id))
            IN  /\ request_id' = next_request_id(request_id, u)
                /\ message_buffers' = buffers
                /\ events' = Append(events,
                      Phase("chunk", [content |-> <<>>,
                                      message_id |-> message_id,
                                      message |-> model_dump_compat(partial_message),
                                      messages |-> reduce_all(buffers)]))
       ELSE UNCHANGED <<request_id, message_buffers, events>>
    /\ BodyEnds(~valid_chat_agent_chunk(u), sink_raises)
    /\ UNCHANGED <<accumulated_content, all_messages>>

StreamEventTypes == {ItemDone, "response.output_text.delta"}

\* ResponsesAgentStreamEvent.model_validate(raw_event) accepts the event
\* types of the protocol.
valid_stream_event(u) == u.type \in StreamEventTypes

RECURSIVE text_messages(_)
\* Lines 297-304: one assistant message per non-empty output_text part.
text_messages(content_parts) ==
    IF content_parts = <<>> THEN <<>>
    ELSE (IF Head(content_parts).type = "output_text" /\ Head(content_parts).text # <<>>
          THEN <<Msg("assistant", Head(content_parts).text)>>
          ELSE <<>>)
         \o text_messages(Tail(content_parts))

\* Lines 291-334: the messages one event's item appends to all_messages.
item_messages(item) ==
    IF item.type = "message" THEN text_messages(item.content)
    ELSE IF item.type = "function_call"
    THEN << [Msg("assistant", <<>>) EXCEPT
               !.tool_calls = <<ToolCall(item.call_id, item.name, item.arguments)>>] >>
    ELSE IF item.type = "function_call_output"
    THEN << [Msg("tool", item.output) EXCEPT !.tool_call_id = item.call_id] >>
    ELSE <<>>

\* Lines 281-338 of _query_responses_endpoint on a yielded event.
StreamChunkResponses(u, sink_raises) ==
    /\ Yields("responses", u)
    /\ request_id' = next_request_id(request_id, u)
    /\ LET invalid == u.shape = "type" /\ ~valid_stream_event(u)
           msgs    == IF u.shape = "type" /\ ~invalid
                      THEN all_messages \o item_messages(u.item)
                      ELSE all_messages
       IN  /\ sink_raises => (~invalid /\ msgs # <<>>)
           /\ all_messages' = msgs
           /\ events' = IF ~invalid /\ msgs # <<>>
                        THEN Append(events, Phase("chunk", MessagesData(msgs)))
                        ELSE events
           /\ BodyEnds(invalid, sink_raises)
    /\ UNCHANGED <<accumulated_content, message_buffers>>

\* The generator drops the unit and reads on (model_serving_utils.py 182-190).
StreamSkip(u) ==
    /\ pc = "streaming"
    /\ consumed < MaxStream
    /\ stream_step(stream_task, user_token, u) = "skip"
    /\ consumed' = consumed + 1
    /\ last_unit' = u
    /\ lookup' = NoLookup
    /\ UNCHANGED <<service, history, pc, turn_inputs, stream_task, yielded,
                   received, handler_locals, exc, events, response, sink_raised>>

\* The generator raises on the unit (model_serving_utils.py 199-200, or the
\* client's own decoding).
StreamRaise(u) ==
    /\ pc = "streaming"
    /\ consumed < MaxStream
    /\ stream_step(stream_task, user_token, u) = "raise"
    /\ consumed' = consumed + 1
    /\ last_unit' = u
    /\ lookup' = NoLookup
    /\ exc' = Exc(yielded, FALSE)
    /\ pc' = "except"
    /\ UNCHANGED <<service, history, turn_inputs, stream_task, yielded,
                   received, handler_locals, events, response, sink_raised>>

\* The request or the connection fails: requests.post, raise_for_status,
\* iter_lines or predict_stream raises.
StreamError ==
    /\ pc = "streaming"
    /\ lookup' = NoLookup
    /\ exc' = Exc(yielded, FALSE)
    /\ pc' = "except"
    /\ UNCHANGED <<service, history, turn_inputs, wire, handler_locals, events,
                   response, sink_raised>>

(***************************************************************************)
(* End of the stream, the except clause and the fallback call.             *)
(***************************************************************************)
\* The final message list a handler builds once its loop ends (lines 163,
\* 233-236, 341).
final_messages(handler) ==
    IF handler = "chat_completions" THEN <<Msg("assistant", accumulated_content)>>
    ELSE IF handler = "chat_agent" THEN reduce_all(message_buffers)
    ELSE all_messages

\* The response built from the last message only.
stream_response_last_only(handler, messages) ==
    AssistantResponse(IF messages = <<>> THEN <<>> ELSE <<messages[Len(messages)]>>,
                      request_id, IF handler = "responses" THEN None ELSE user_token)

\* The AssistantResponse a handler returns after its stream (lines 167-171,
\* 241-245, 343): the responses handler leaves user_token out.
stream_response(handler, messages) ==
    IF handler = "responses" THEN AssistantResponse(messages, request_id, None)
    ELSE AssistantResponse(messages, request_id, user_token)

\* The handler returning after its stream without giving 'complete'.
StreamEnd_silent(sink_raises) ==
    /\ pc = "streaming"
    /\ ~sink_raises
    /\ pc' = "returned"
    /\ response' = stream_response(handler_of(task_type),
                                   final_messages(handler_of(task_type)))
    /\ history' = Append(history, response')
    /\ lookup' = NoLookup
    /\ UNCHANGED <<service, turn_inputs, wire, handler_locals, exc, events,
                   sink_raised>>

\* The handler giving 'complete' after its try block: an exception of the
\* sink leaves the handler.
StreamEnd_outside_try(sink_raises) ==
    /\ pc = "streaming"
    /\ LET handler  == handler_of(task_type)
           messages == final_messages(handler)
       IN  /\ events' = Append(events, Phase("complete", MessagesData(messages)))
           /\ IF sink_raises
              THEN /\ pc' = "raised"
                   /\ UNCHANGED <<response, history>>
              ELSE /\ pc' = "returned"
                   /\ response' = stream_response(handler, messages)
                   /\ history' = Append(history, stream_response(handler, messages))
    /\ sink_raised' = (sink_raised \/ sink_raises)
    /\ lookup' = NoLookup
    /\ UNCHANGED <<service, turn_inputs, wire, handler_locals, exc>>

\* The generator is exhausted: the handler gives 'complete' to the sink and
\* returns, and the chat input handler appends the response to the history
\* (app.py 148).  A sink that raises does so inside the try.
StreamEnd(sink_raises) ==
    /\ pc = "streaming"
    /\ LET handler  == handler_of(task_type)
           messages == final_messages(handler)
       IN  /\ events' = Append(events, Phase("complete", MessagesData(messages)))
           /\ IF sink_raises
              THEN /\ pc' = "except"
                   /\ exc' = Exc(yielded, TRUE)
                   /\ UNCHANGED <<response, history>>
              ELSE /\ pc' = "returned"
                   /\ response' = stream_response(handler, messages)
                   /\ history' = Append(history, stream_response(handler, messages))
                   /\ UNCHANGED exc
    /\ sink_raised' = (sink_raised \/ sink_raises)
    /\ lookup' = NoLookup
    /\ UNCHANGED <<service, turn_inputs, wire, handler_locals>>

\* The except clause giving 'error' only when a fragment had been yielded.
Except_quiet(sink_raises) ==
    /\ pc = "except"
    /\ events' = IF yielded > 0 THEN Append(events, Phase("error", NoData)) ELSE events
    /\ sink_raises => yielded > 0
    /\ sink_raised' = (sink_raised \/ sink_raises)
    /\ pc' = IF sink_raises THEN "raised" ELSE "fallback"
    /\ lookup' = NoLookup
    /\ received' = <<>>
    /\ UNCHANGED <<service, history, turn_inputs, stream_task, consumed, yielded,
                   last_unit, handler_locals, exc, response>>

\* The except clause going back into the loop of the broken stream.
Except_resume(sink_raises) ==
    /\ pc = "except"
    /\ events' = Append(events, Phase("error", NoData))
    /\ sink_raised' = (sink_raised \/ sink_raises)
    /\ pc' = IF sink_raises THEN "raised" ELSE "streaming"
    /\ lookup' = NoLookup
    /\ received' = <<>>
    /\ UNCHANGED <<service, history, turn_inputs, stream_task, consumed, yielded,
                   last_unit, handler_locals, exc, response>>

\* except Exception: render_callback('error', str(e)) (lines 172-175,
\* 246-249, 344-347).  A sink that raises here ends the turn.  The loop has
\* been left and the generator with what it had yielded is gone.
Except(sink_raises) ==
    /\ pc = "except"
    /\ events' = Append(events, Phase("error", NoData))
    /\ sink_raised' = (sink_raised \/ sink_raises)
    /\ pc' = IF sink_raises THEN "raised" ELSE "fallback"
    /\ lookup' = NoLookup
    /\ received' = <<>>
    /\ UNCHANGED <<service, history, turn_inputs, stream_task, consumed, yielded,
                   last_unit, handler_locals, exc, response>>

\* The user_token argument of the handler's query_endpoint call: the
\* chat-completions handler passes none (lines 177-181), the other two
\* pass the turn's (lines 251-256, 349-354).
fallback_token(handler, token) ==
    IF handler = "chat_completions" THEN None ELSE token

\* The fallback call given the new user message only.
fallback_messages_last(messages) ==
    IF messages = <<>> THEN <<>> ELSE <<messages[Len(messages)]>>

\* The messages argument of the handler's query_endpoint call (lines 179,
\* 253, 351).
fallback_messages(messages) == messages

\* query_endpoint begins by looking the task type up (line 256); nothing
\* catches an exception raised here.
FallbackLookup(outcome) ==
    /\ pc = "fallback"
    /\ lookup' = Lookup(outcome)
    /\ events' = Append(events,
          Call("lookup", None, service.endpoint_name, <<>>, FALSE,
               fallback_token(handler_of(task_type), user_token),
               _get_endpoint_task_type(outcome).raises))
    /\ pc' = IF _get_endpoint_task_type(outcome).raises THEN "raised" ELSE "query"
    /\ UNCHANGED <<service, history, turn_inputs, wire, handler_locals, exc,
                   response, sink_raised>>

\* The handler swallowing the exception of the fallback call and returning
\* an empty response.
FallbackReturns_swallow(result, sink_raises) ==
    IF sink_raises
    THEN /\ pc' = "raised"
         /\ UNCHANGED <<response, history>>
    ELSE /\ pc' = "returned"
         /\ response' = AssistantResponse(result.messages, result.request_id, None)
         /\ history' = Append(history,
               AssistantResponse(result.messages, result.request_id, None))

\* The handler keeping the request id of the failed stream when the
\* fallback answer carries none.
FallbackReturns_keep_request_id(result, sink_raises) ==
    LET req == IF result.request_id = None THEN request_id ELSE result.request_id
    IN  IF result.raises \/ sink_raises
        THEN /\ pc' = "raised"
             /\ UNCHANGED <<response, history>>
        ELSE /\ pc' = "returned"
             /\ response' = AssistantResponse(result.messages, req, None)
             /\ history' = Append(history, AssistantResponse(result.messages, req, None))

\* The failed turn taking its user message back out of the history.
FallbackReturns_rollback(result, sink_raises) ==
    IF result.raises \/ sink_raises
    THEN /\ pc' = "raised"
         /\ history' = SubSeq(history, 1, Len(history) - 1)
         /\ UNCHANGED response
    ELSE /\ pc' = "returned"
         /\ response' = AssistantResponse(result.messages, result.request_id, None)
         /\ history' = Append(history,
               AssistantResponse(result.messages, result.request_id, None))

\* The handler's return after the fallback call, or the exception that
\* leaves it (lines 183-186, 258-261, 356-359).
FallbackReturns(result, sink_raises) ==
    IF result.raises \/ sink_raises
    THEN /\ pc' = "raised"
         /\ UNCHANGED <<response, history>>
    ELSE /\ pc' = "returned"
         /\ response' = AssistantResponse(result.messages, result.request_id, None)
         /\ history' = Append(history,
               AssistantResponse(result.messages, result.request_id, None))

\* query_endpoint issues the one non-streaming request and parses the
\* answer; the handler gives 'complete' to the sink and returns
\* AssistantResponse(messages, request_id) (lines 177-186, 251-261, 349-359).
QueryEndpoint(res, sink_raises) ==
    /\ pc = "query"
    /\ LET handler == handler_of(task_type)
           task    == lookup.result.task
           result  == query_endpoint(task, res)
           call    == [Call("query", task, service.endpoint_name,
                            fallback_messages(input_messages), service.supports_feedback,
                            fallback_token(handler, user_token), result.raises)
                       EXCEPT !.answer = res]
       IN  /\ sink_raises => ~result.raises
           /\ events' = IF result.raises
                        THEN Append(events, call)
                        ELSE events \o
                             <<call, Phase("complete", MessagesData(result.messages))>>
           /\ FallbackReturns(result, sink_raises)
    /\ sink_raised' = (sink_raised \/ sink_raises)
    /\ lookup' = NoLookup
    /\ UNCHANGED <<service, turn_inputs, wire, handler_locals, exc>>

Next ==
    \/ \E prompt \in Prompts, token \in Tokens, outcome \in LookupOutcomes :
          ChatInput(prompt, token, outcome)
    \/ \E sink_raises \in BOOLEAN : query_and_process(sink_raises)
    \/ \E outcome \in LookupOutcomes : query_endpoint_stream(outcome)
    \/ \E u \in RawUnits, sink_raises \in BOOLEAN : StreamChunkChatCompletions(u, sink_raises)
    \/ \E u \in RawUnits, sink_raises \in BOOLEAN : StreamChunkChatAgent(u, sink_raises)
    \/ \E u \in RawUnits, sink_raises \in BOOLEAN : StreamChunkResponses(u, sink_raises)
    \/ \E u \in RawUnits : StreamSkip(u)
    \/ \E u \in RawUnits : StreamRaise(u)
    \/ StreamError
    \/ \E sink_raises \in BOOLEAN : StreamEnd(sink_raises)
    \/ \E sink_raises \in BOOLEAN : Except(sink_raises)
    \/ \E outcome \in LookupOutcomes : FallbackLookup(outcome)
    \/ \E res \in Responses, sink_raises \in BOOLEAN : QueryEndpoint(res, sink_raises)

Spec == Init /\ [][Next]_vars

(***************************************************************************)
(* Properties of a turn.  They read the event log of the turn; a sink that *)
(* has raised is outside the render sink's contract (it must not raise),   *)
(* so the orchestrator's phase properties are stated for turns in which    *)
(* it has not.                                                             *)
(***************************************************************************)
IsPhase(e) == e.ev = "phase"

Phases == SelectSeq(events, IsPhase)

PhaseNames == [i \in 1..Len(Phases) |-> Phases[i].phase]

\* Positions of the events log that hold the given phase / kind of call.
PhaseAt(phase) == {i \in 1..Len(events) : events[i].ev = "phase" /\ events[i].phase = phase}

CallAt(kind) == {i \in 1..Len(events) : events[i].ev = kind}

TurnOver == pc \in {"returned", "raised"}

\* The phase automaton start -> chunk* -> (complete | error -> complete).
PhaseStep(q, phase) ==
    CASE q = "init" /\ phase = "start" -> "started"
      [] q = "started" /\ phase = "chunk" -> "started"
      [] q = "started" /\ phase = "complete" -> "completed"
      [] q = "started" /\ phase = "error" -> "failed"
      [] q = "failed" /\ phase = "complete" -> "completed"
      [] OTHER -> "bad"

RECURSIVE PhaseRun(_, _)
PhaseRun(q, names) ==
    IF names = <<>> THEN q ELSE PhaseRun(PhaseStep(q, Head(names)), Tail(names))

\* C1: with a sink that does not raise, and whatever the task type, the
\* phases given to the sink so far always form a prefix of
\* start chunk* (complete | error complete); a turn that returned ended
\* with complete, and a turn that raised ended with error.
C1_PhaseOrder ==
    ~sink_raised =>
        LET q == PhaseRun("init", PhaseNames)
        IN  /\ q # "bad"
            /\ pc = "returned" => q = "completed"
            /\ pc = "raised" => q = "failed"

\* A chat-agent turn that gave start, chunk, error, complete and returned.
C1_Witness ==
    /\ ~sink_raised
    /\ pc = "returned"
    /\ handler_of(task_type) = "chat_agent"
    /\ PhaseNames = <<"start", "chunk", "error", "complete">>

\* The calls of the fallback: the query_endpoint request, and the lookup
\* query_endpoint makes first (the one after the streaming call).
FallbackCalls ==
    CallAt("query") \cup
    {j \in CallAt("lookup") : \E st \in CallAt("stream") : st < j}

\* C2: when something raised inside the try after N yielded fragments,
\* error is given to the sink exactly once (never when nothing raised, not
\* yet while the exception is being caught), it precedes every call of the
\* fallback, and a fallback that succeeded is followed by exactly one
\* complete.
C2_ErrorOnceBeforeFallback ==
    ~sink_raised =>
        /\ ~exc.raised => PhaseAt("error") = {}
        /\ (exc.raised /\ pc = "except") => PhaseAt("error") = {}
        /\ (exc.raised /\ pc # "except") => Cardinality(PhaseAt("error")) = 1
        /\ \A i \in FallbackCalls : \E e \in PhaseAt("error") : e < i
        /\ (exc.raised /\ pc = "returned") =>
              /\ Cardinality(PhaseAt("complete")) = 1
              /\ \A c \in PhaseAt("complete") : \A i \in CallAt("query") : i < c

\* A stream that raised after two fragments, with a fallback that succeeded.
C2_Witness ==
    /\ ~sink_raised
    /\ exc.raised
    /\ exc.fragments = 2
    /\ pc = "returned"

C4_FallbackCredential ==
    \A q \in CallAt("query") :
        /\ events[q].user_token = user_token
        /\ \A st \in CallAt("stream") : events[q].user_token = events[st].user_token

C6_FallbackFailurePropagates ==
    ~sink_raised =>
        \A q \in CallAt("query") :
            events[q].raised =>
                /\ pc = "raised"
                /\ q = Len(events)
                /\ CallAt("query") = {q}
                /\ PhaseAt("complete") = {}
                /\ response = NoResponse
                /\ history[Len(history)].kind = "user"

\* A fallback call that raised after a stream that raised.
C6_Witness ==
    /\ ~sink_raised
    /\ exc.raised
    /\ pc = "raised"
    /\ \E q \in CallAt("query") : events[q].raised

\* C7: once query_and_process runs, start has been given exactly once and
\* is the first event: every lookup, streaming call and non-streaming call
\* made inside query_and_process comes after it.
C7_StartFirst ==
    /\ pc \in {"idle", "call"} => events = <<>>
    /\ pc \notin {"idle", "call"} =>
          /\ events # <<>>
          /\ PhaseAt("start") = {1}
    /\ \A i \in CallAt("lookup") \cup CallAt("stream") \cup CallAt("query") :
          \E st \in PhaseAt("start") : st < i

\* A turn that made a lookup, a streaming call and a non-streaming call.
C7_Witness ==
    /\ PhaseAt("start") = {1}
    /\ CallAt("stream") # {}
    /\ CallAt("query") # {}
    /\ Cardinality(CallAt("lookup")) = 2

\* C8: the task type that selected the handler is the task type every
\* transport call of the turn built its request for.
C8_TaskTypeFixed ==
    \A i \in CallAt("stream") \cup CallAt("query") : events[i].task = task_type

\* C9: a lookup never raises; it returns "chat/completions" when the client
\* or the get raises and when the endpoint reports no task, otherwise the
\* task the endpoint reports; it leaves the service as it was.
C9_ResolutionNeverRaises ==
    lookup.made =>
        /\ ~lookup.result.raises
        /\ lookup.result.task =
              IF lookup.outcome.raises \in {"client", "get"}
                 \/ lookup.outcome.task \in {None, ""}
              THEN "chat/completions"
              ELSE lookup.outcome.task
        /\ lookup.service = service
        /\ pc # "raised"

\* The lookup of the fallback call met a failing get and resolved to the
\* default.
C9_Witness ==
    /\ lookup.made
    /\ lookup.outcome.raises = "get"
    /\ lookup.result = LookupReturned("chat/completions")
    /\ pc = "query"

(***************************************************************************)
(* The chat-agent loop fed with fragments of one message identity: every   *)
(* advance re-runs reduce_chat_agent_chunks on the grown buffer.           *)
(***************************************************************************)
FragmentDelta(content, tool_calls, tool_call_id) ==
    DeltaUnit(ChatAgentMessage("assistant", content, "m1", tool_calls, tool_call_id), Absent)

\* Fragments of message m1: text, tool-call deltas with and without a call
\* id, tool_call_id carriers, and a fragment that names another role.
ReduceUnits ==
    {FragmentDelta(<<"a">>, <<>>, None),
     FragmentDelta(<<>>, <<ToolCall("", "f", <<"x">>)>>, None),
     FragmentDelta(<<>>, <<ToolCall("c1", "f", <<"x">>)>>, None),
     FragmentDelta(<<>>, <<ToolCall("c1", "", <<"y">>)>>, None),
     FragmentDelta(<<>>, <<ToolCall("c2", "g", <<"z">>)>>, "t1"),
     FragmentDelta(<<>>, <<ToolCall("c2", "", <<"u">>), ToolCall("c1", "h", <<"w">>)>>, None),
     DeltaUnit(ChatAgentMessage("tool", <<"b">>, "m1", <<>>, "t2"), Absent)}

\* The chat-agent handler about to read its stream, in a fresh session.
InitReduce ==
    /\ service = [endpoint_name |-> SERVING_ENDPOINT, supports_feedback |-> FALSE]
    /\ history = <<UserMessage(<<"p">>)>>
    /\ pc = "streaming"
    /\ user_token = None
    /\ task_type = ChatAgent
    /\ input_messages = <<Msg("user", <<"p">>)>>
    /\ lookup = [made |-> TRUE, outcome |-> [raises |-> "no", task |-> ChatAgent],
                 result |-> LookupReturned(ChatAgent),
                 service |-> [endpoint_name |-> SERVING_ENDPOINT,
                              supports_feedback |-> FALSE]]
    /\ stream_task = ChatAgent
    /\ consumed = 0
    /\ yielded = 0
    /\ last_unit = FooUnit
    /\ received = <<>>
    /\ accumulated_content = <<>>
    /\ request_id = None
    /\ message_buffers = <<>>
    /\ all_messages = <<>>
    /\ exc = NoExc
    /\ events = <<Phase("start", NoData),
                  Call("lookup", None, SERVING_ENDPOINT, <<>>, FALSE, None, FALSE),
                  Call("stream", ChatAgent, SERVING_ENDPOINT,
                       <<Msg("user", <<"p">>)>>, FALSE, None, FALSE)>>
    /\ response = NoResponse
    /\ sink_raised = FALSE

NextReduce == \E u \in ReduceUnits : StreamChunkChatAgent(u, FALSE)

SpecReduce == InitReduce /\ [][NextReduce]_vars

\* The fragments buffered for the one message, and the reduction of their
\* first k.
Fragments == IF message_buffers = <<>> THEN <<>> ELSE message_buffers[1].chunks

ReducedPrefix(k) == reduce_chat_agent_chunks(SubSeq(Fragments, 1, k))

\* Reduced message a is not ahead of reduced message b: a's content is a
\* prefix of b's, and a's tool calls are found in b in the same order, each
\* with an argument string that extends a's.
NotAhead(a, b) ==
    /\ IsPrefix(a.content, b.content)
    /\ \E f \in [1..Len(a.tool_calls) -> 1..Len(b.tool_calls)] :
          /\ \A i, j \in 1..Len(a.tool_calls) : i < j => f[i] < f[j]
          /\ \A i \in 1..Len(a.tool_calls) :
                /\ b.tool_calls[f[i]].id = a.tool_calls[i].id
                /\ IsPrefix(a.tool_calls[i].function.arguments,
                            b.tool_calls[f[i]].function.arguments)

\* C10: for every pair of prefixes j <= k of the fragments of one message,
\* the reduction of the first j is not ahead of the reduction of the first k.
C10_ReduceMonotone ==
    \A k \in 1..Len(Fragments) : \A j \in 1..k :
        NotAhead(ReducedPrefix(j), ReducedPrefix(k))

(***************************************************************************)
(* What the fragments of the one message say about tool calls, read off    *)
(* the fragments themselves: every tool-call delta in arrival order, the   *)
(* call ids in the order they are first seen, and per call id the argument *)
(* pieces and the names supplied.  A tool-call delta without an id (None   *)
(* or "") carries no call id.                                              *)
(***************************************************************************)
RECURSIVE CallsIn(_)
CallsIn(chunks) ==
    IF chunks = <<>> THEN <<>>
    ELSE Head(chunks).delta.tool_calls \o CallsIn(Tail(chunks))

HasId(tool_call) == Truthy(tool_call.id)

SightedCalls == SelectSeq(CallsIn(Fragments), HasId)

RECURSIVE FirstSightings(_, _)
\* The ids in order of first appearance, without those in seen.
FirstSightings(ids, seen) ==
    IF ids = <<>> THEN <<>>
    ELSE IF Head(ids) \in seen THEN FirstSightings(Tail(ids), seen)
    ELSE <<Head(ids)>> \o FirstSightings(Tail(ids), seen \cup {Head(ids)})

SightedIds == FirstSightings([i \in 1..Len(SightedCalls) |-> SightedCalls[i].id], {})

CallsWithId(call_id) ==
    LET Same(tool_call) == tool_call.id = call_id
    IN  SelectSeq(SightedCalls, Same)

\* All argument pieces of the call id, appended in arrival order.
ExpectedArguments(call_id) ==
    LET calls == CallsWithId(call_id)
    IN  Join([i \in 1..Len(calls) |-> calls[i].function.arguments])

\* The last non-empty name supplied for the call id, else the name of its
\* first sighting.
ExpectedName(call_id) ==
    LET calls == CallsWithId(call_id)
        Named(tool_call) == Truthy(tool_call.function.name)
        named == SelectSeq(calls, Named)
    IN  IF named = <<>> THEN calls[1].function.name
        ELSE named[Len(named)].function.name

\* The message the loop gave to the sink with its last chunk: the reduction
\* of all fragments buffered so far.
ReducedMessage == events[Len(events)].data.message

ReceivedIds ==
    FirstSightings([i \in 1..Len(received) |-> received[i].delta.id], {})

\* The content deltas of the fragments of one identity, appended in arrival
\* order.
ReceivedContent(message_id) ==
    LET Same(u) == u.delta.id = message_id
        own == SelectSeq(received, Same)
    IN  Join([i \in 1..Len(own) |-> own[i].delta.content])

\* A chat-agent turn whose stream has ended normally.
ChatAgentStreamReturned ==
    /\ handler_of(task_type) = "chat_agent"
    /\ pc = "returned"
    /\ ~exc.raised

\* C12: when a chat-agent stream ends normally, the final message list has
\* one message per distinct message identity of the stream, in the order
\* the identities first appeared, and the content of each is the
\* concatenation, in arrival order, of the content deltas of the fragments
\* of that identity only, however the identities were interleaved.
C12_IdentitiesFoldedIndependently ==
    ChatAgentStreamReturned =>
        /\ Len(response.messages) = Len(ReceivedIds)
        /\ \A i \in 1..Len(ReceivedIds) :
              /\ response.messages[i].id = ReceivedIds[i]
              /\ response.messages[i].content = ReceivedContent(ReceivedIds[i])
        /\ events[Len(events)].data.messages = response.messages

\* Fragments arrived as m1, m2, m1 and folded into the messages m1, m2.
C12_Witness ==
    /\ ChatAgentStreamReturned
    /\ [i \in 1..Len(received) |-> received[i].delta.id] = <<"m1", "m2", "m1">>
    /\ response.messages =
          <<[Msg("assistant", <<"a", "a">>) EXCEPT !.id = "m1"],
            [Msg("assistant", <<"b">>) EXCEPT !.id = "m2"]>>

HasToolCallId(chunk) == Truthy(chunk.delta.tool_call_id)

\* C13: the reduced message has the role and the id of the first fragment,
\* whatever the later fragments carry; its tool_call_id is the last
\* non-empty tool_call_id in arrival order, and the first fragment's value
\* (left out of the dumped message when it is None) if no fragment has one.
C13_SeedAndLastToolCallId ==
    Fragments # <<>> =>
        LET first    == Fragments[1].delta
            supplied == SelectSeq(Fragments, HasToolCallId)
        IN  /\ ReducedMessage.role = first.role
            /\ ReducedMessage.id = first.id
            /\ ReducedMessage.tool_call_id =
                  IF supplied # <<>> THEN supplied[Len(supplied)].delta.tool_call_id
                  ELSE IF first.tool_call_id = None THEN Absent
                  ELSE first.tool_call_id

\* An assistant fragment with tool_call_id t1, a tool-role fragment with
\* t2, then a fragment without one: role assistant, tool_call_id t2.
C13_Witness ==
    /\ Len(Fragments) = 3
    /\ Fragments[1].delta.tool_call_id = "t1"
    /\ Fragments[2].delta.role = "tool"
    /\ Fragments[2].delta.tool_call_id = "t2"
    /\ Fragments[3].delta.tool_call_id = None
    /\ ReducedMessage.role = "assistant"
    /\ ReducedMessage.tool_call_id = "t2"

(***************************************************************************)
(* The chat-completions loop fed with chunks until its stream ends.        *)
(***************************************************************************)
\* Chunks with one choice, with two choices, with an empty content delta
\* and a request id, with an empty choices list, and without choices.
CompletionUnits ==
    {ChoicesUnit(<< <<"a">> >>, Absent),
     ChoicesUnit(<< <<"b">>, <<"c">> >>, Absent),
     ChoicesUnit(<< <<>> >>, "r1"),
     ChoicesUnit(<<>>, Absent),
     DeltaUnit(ChatAgentMessage("assistant", <<"d">>, "m1", <<>>, None), Absent)}

\* The chat-completions handler about to read its stream, in a fresh
\* session.
InitCompletions ==
    /\ service = [endpoint_name |-> SERVING_ENDPOINT, supports_feedback |-> FALSE]
    /\ history = <<UserMessage(<<"p">>)>>
    /\ pc = "streaming"
    /\ user_token = None
    /\ task_type = ChatCompletions
    /\ input_messages = <<Msg("user", <<"p">>)>>
    /\ lookup = [made |-> TRUE, outcome |-> [raises |-> "no", task |-> ChatCompletions],
                 result |-> LookupReturned(ChatCompletions),
                 service |-> [endpoint_name |-> SERVING_ENDPOINT,
                              supports_feedback |-> FALSE]]
    /\ stream_task = ChatCompletions
    /\ consumed = 0
    /\ yielded = 0
    /\ last_unit = FooUnit
    /\ received = <<>>
    /\ accumulated_content = <<>>
    /\ request_id = None
    /\ message_buffers = <<>>
    /\ all_messages = <<>>
    /\ exc = NoExc
    /\ events = <<Phase("start", NoData),
                  Call("lookup", None, SERVING_ENDPOINT, <<>>, FALSE, None, FALSE),
                  Call("stream", ChatCompletions, SERVING_ENDPOINT,
                       <<Msg("user", <<"p">>)>>, FALSE, None, FALSE)>>
    /\ response = NoResponse
    /\ sink_raised = FALSE

NextCompletions ==
    \/ \E u \in CompletionUnits : StreamChunkChatCompletions(u, FALSE)
    \/ StreamEnd(FALSE)

SpecCompletions == InitCompletions /\ [][NextCompletions]_vars

\* The content delta of choices[0] of a chunk, read off the chunk: nothing
\* for a chunk without choices or with an empty choices list.
FirstChoiceContent(u) ==
    IF u.shape # "choices" THEN <<>>
    ELSE IF Len(u.choices) = 0 THEN <<>>
    ELSE Head(u.choices)

\* C14: when a chat-completions stream ends normally, the returned list has
\* exactly one message, with role assistant, whose content is the content
\* deltas of choices[0] of all chunks of the stream concatenated in arrival
\* order (the empty string when no chunk carried content).
C14_OneConcatenatedMessage ==
    (handler_of(task_type) = "chat_completions" /\ pc = "returned" /\ ~exc.raised) =>
        /\ Len(response.messages) = 1
        /\ response.messages[1] =
              Msg("assistant",
                  Join([i \in 1..Len(received) |-> FirstChoiceContent(received[i])]))

\* The two-choice chunk, the chunk with an empty delta and the one-choice
\* chunk arrived in this order: the content is "ba".
C14_Witness ==
    /\ pc = "returned"
    /\ Len(received) = 3
    /\ Len(received[1].choices) = 2
    /\ response.messages = <<Msg("assistant", <<"b", "a">>)>>

(***************************************************************************)
(* The responses-agent loop against the item events it was given.          *)
(***************************************************************************)
RECURSIVE OneMessagePerItem(_)
\* The messages of the events, one message per item as the non-streaming
\* parser builds it: a message item gives one assistant message with the
\* text of its output_text parts concatenated.
OneMessagePerItem(units) ==
    IF units = <<>> THEN <<>>
    ELSE (IF Head(units).shape = "type" THEN parse_output_item(Head(units).item) ELSE <<>>)
         \o OneMessagePerItem(Tail(units))

\* C15: in a responses-agent stream that has not raised, the messages
\* collected so far are one message per item event received: a message item
\* gives one assistant message with the text of its output_text parts
\* concatenated, a function_call item one assistant message with one tool
\* call, a function_call_output item one tool message.
C15_OneMessagePerItemEvent ==
    (handler_of(task_type) = "responses" /\ pc \in {"streaming", "returned"}
       /\ ~exc.raised) =>
        all_messages = OneMessagePerItem(received)

(***************************************************************************)
(* Units whose top-level shape the protocol of the stream does not know.   *)
(***************************************************************************)
\* A decoded object with neither choices nor delta (chat protocols), or
\* without type (responses protocol).
UnrecognizedShape(task, u) ==
    /\ u.shape # "badjson"
    /\ IF task = ResponsesAgent THEN u.shape # "type"
       ELSE u.shape \notin {"choices", "delta"}

\* C16: under both credentials, in a stream opened for the task type of the
\* turn, once the unit read last off the wire has a shape the protocol does
\* not know, the stream has ended with an exception: the loop is not
\* reading on and has not ended normally, error is given to the sink as
\* soon as the exception is caught, and a turn that is over has made the
\* fallback call.
C16_UnknownShapeEndsStream ==
    (consumed > 0 /\ stream_task = task_type
       /\ UnrecognizedShape(stream_task, last_unit)) =>
        /\ exc.raised
        /\ pc # "streaming"
        /\ pc # "except" => PhaseAt("error") # {}
        /\ (TurnOver /\ ~sink_raised) => CallAt("query") # {}

\* C17: whichever path produced it, after the stream or after the
\* fallback call, the AssistantResponse of a returned turn is populated the
\* same way: it carries the message list given with complete and, as
\* user_token, the credential of the turn.
C17_ResponseSameOnBothPaths ==
    pc = "returned" =>
        /\ response.kind = "assistant"
        /\ ~sink_raised => response.messages = events[Len(events)].data.messages
        /\ response.user_token = user_token

(***************************************************************************)
(* A turn against a responses endpoint in a session whose earlier          *)
(* assistant response holds tool calls and tool results, up to the request *)
(* the streaming transport builds from the flattened history.              *)
(***************************************************************************)
\* Messages an earlier response can hold: text; one tool call with text;
\* two tool calls without text; a tool result; an empty text.
ConvertMessages ==
    {Msg("assistant", <<"i">>),
     [Msg("assistant", <<"j">>) EXCEPT !.tool_calls = <<ToolCall("c1", "f", <<"x">>)>>,
                                       !.id = "m1"],
     [Msg("assistant", <<>>) EXCEPT
         !.tool_calls = <<ToolCall("c1", "f", <<"x">>), ToolCall("c2", "g", <<"y">>)>>],
     [Msg("tool", <<"o">>) EXCEPT !.tool_call_id = "c1"],
     Msg("assistant", <<>>)}

ConvertHistories ==
    {<<UserMessage(<<"h">>), AssistantResponse(messages, "r0", None)>> :
        messages \in UNION {[1..n -> ConvertMessages] : n \in 0..MaxMessages}}

InitConvert ==
    /\ service = [endpoint_name |-> SERVING_ENDPOINT, supports_feedback |-> FALSE]
    /\ history \in ConvertHistories
    /\ pc = "idle"
    /\ user_token = None
    /\ task_type = None
    /\ input_messages = <<>>
    /\ lookup = NoLookup
    /\ stream_task = None
    /\ consumed = 0
    /\ yielded = 0
    /\ last_unit = FooUnit
    /\ received = <<>>
    /\ accumulated_content = <<>>
    /\ request_id = None
    /\ message_buffers = <<>>
    /\ all_messages = <<>>
    /\ exc = NoExc
    /\ events = <<>>
    /\ response = NoResponse
    /\ sink_raised = FALSE

ResponsesOutcome == [raises |-> "no", task |-> ResponsesAgent]

NextConvert ==
    \/ \E prompt \in Prompts, token \in Tokens : ChatInput(prompt, token, ResponsesOutcome)
    \/ query_and_process(FALSE)
    \/ query_endpoint_stream(ResponsesOutcome)

SpecConvert == InitConvert /\ [][NextConvert]_vars

\* The items one message must give, stated on the items.
ItemsAsClaimed(msg, items) ==
    LET n == Len(msg.tool_calls)
    IN  IF msg.role = "user"
        THEN /\ Len(items) = 1
             /\ items[1].role = "user"
             /\ items[1].content = msg.content
        ELSE IF msg.role = "tool"
        THEN /\ Len(items) = 1
             /\ items[1].type = "function_call_output"
             /\ items[1].call_id = msg.tool_call_id
             /\ items[1].output = msg.content
        ELSE IF msg.role = "assistant" /\ n = 0
        THEN /\ Len(items) = 1
             /\ items[1].type = "message"
             /\ items[1].role = "assistant"
             /\ items[1].parts = <<OutputText(msg.content)>>
        ELSE IF msg.role = "assistant"
        THEN /\ Len(items) = n + (IF msg.content # <<>> THEN 1 ELSE 0)
             /\ \A k \in 1..n :
                   /\ items[k].type = "function_call"
                   /\ items[k].call_id = msg.tool_calls[k].id
                   /\ items[k].name = msg.tool_calls[k].function.name
                   /\ items[k].arguments = msg.tool_calls[k].function.arguments
             /\ msg.content # <<>> =>
                   /\ items[n + 1].type = "message"
                   /\ items[n + 1].role = "assistant"
                   /\ items[n + 1].parts = <<OutputText(msg.content)>>
        ELSE items = <<>>

\* The request input splits into one run of items per message, in the order
\* of the messages, each run being what the claim says of its message.
RECURSIVE SplitsAsClaimed(_, _)
SplitsAsClaimed(messages, items) ==
    IF messages = <<>> THEN items = <<>>
    ELSE \E k \in 0..Len(items) :
            /\ ItemsAsClaimed(Head(messages), SubSeq(items, 1, k))
            /\ SplitsAsClaimed(Tail(messages), SubSeq(items, k + 1, Len(items)))

\* C18: the input of every request built for the responses protocol is, in
\* the order of the messages it was built from: for a user message one user
\* item; for an assistant message with tool calls one function_call item
\* per tool call in tool-call order, then one message item only if the
\* content is non-empty; for an assistant message without tool calls one
\* message item; for a tool message one function_call_output item with its
\* tool_call_id.
C18_ResponsesRequestItems ==
    \A c \in CallAt("stream") \cup CallAt("query") :
        events[c].task = ResponsesAgent =>
            SplitsAsClaimed(events[c].messages, events[c].input)

\* An assistant message with one tool call and text, between two user
\* messages: user item, function_call, message, user item.
C18_Witness ==
    \E c \in CallAt("stream") :
        /\ events[c].task = ResponsesAgent
        /\ Len(events[c].messages) = 3
        /\ Len(events[c].messages[2].tool_calls) = 1
        /\ [i \in 1..Len(events[c].input) |-> events[c].input[i].type] =
              <<Absent, "function_call", "message", Absent>>
        /\ events[c].input[3].parts = <<OutputText(<<"j">>)>>

(***************************************************************************)
(* The feedback widget of a session that holds assistant responses         *)
(* (ui_components.py 34-56, messages.py 89-90): every change of a widget   *)
(* runs save_feedback once.                                                *)
(***************************************************************************)
\* st.feedback("thumbs") reports 0, 1 or None; 2 stands for any other value.
Ratings == {None, "0", "1", "2"}

\* The callback swallowing the exception of submit_feedback.
save_feedback_swallow(index, rating, raises) ==
    /\ pc \in {"idle", "returned", "raised"}
    /\ index \in 1..Len(history)
    /\ history[index].kind = "assistant"
    /\ history[index].request_id # None
    /\ Cardinality(CallAt("feedback")) < MaxFeedback
    /\ events' = Append(events,
          FeedbackCall(SERVING_ENDPOINT, history[index].request_id, rating,
                       history[index].user_token, raises))
    /\ pc' = "idle"
    /\ UNCHANGED <<service, history, turn_inputs, lookup, wire, handler_locals, exc,
                   response, sink_raised>>

\* save_feedback (ui_components.py 46-54), the on_change callback of the
\* widget rendered for history[index] when it has a request id: one call of
\* submit_feedback with the response's request id and token.  The script
\* run ends normally, or with the exception of the call.
save_feedback(index, rating, raises) ==
    /\ pc \in {"idle", "returned", "raised"}
    /\ index \in 1..Len(history)
    /\ history[index].kind = "assistant"
    /\ history[index].request_id # None
    /\ Cardinality(CallAt("feedback")) < MaxFeedback
    /\ events' = Append(events,
          FeedbackCall(SERVING_ENDPOINT, history[index].request_id, rating,
                       history[index].user_token, raises))
    /\ pc' = IF raises THEN "raised" ELSE "idle"
    /\ UNCHANGED <<service, history, turn_inputs, lookup, wire, handler_locals, exc,
                   response, sink_raised>>

\* Sessions with two exchanges: the first response has a request id, the
\* second may have one.
FeedbackHistories ==
    {<<UserMessage(<<"h">>), AssistantResponse(<<Msg("assistant", <<"i">>)>>, "r0", token),
       UserMessage(<<"p">>), AssistantResponse(<<Msg("assistant", <<"z">>)>>, req, None)>> :
        token \in Tokens, req \in {None, "r2"}}

InitFeedback ==
    /\ service = [endpoint_name |-> SERVING_ENDPOINT, supports_feedback |-> TRUE]
    /\ history \in FeedbackHistories
    /\ pc = "idle"
    /\ user_token = None
    /\ task_type = None
    /\ input_messages = <<>>
    /\ lookup = NoLookup
    /\ stream_task = None
    /\ consumed = 0
    /\ yielded = 0
    /\ last_unit = FooUnit
    /\ received = <<>>
    /\ accumulated_content = <<>>
    /\ request_id = None
    /\ message_buffers = <<>>
    /\ all_messages = <<>>
    /\ exc = NoExc
    /\ events = <<>>
    /\ response = NoResponse
    /\ sink_raised = FALSE

NextFeedback ==
    \E index \in 1..4, rating \in Ratings, raises \in BOOLEAN :
        save_feedback(index, rating, raises)

SpecFeedback == InitFeedback /\ [][NextFeedback]_vars

\* C19: every feedback request carries one record with the request id it
\* was given and an empty retrieval-assessments list; its text assessments
\* are one assessment "positive" for rating 1, one assessment "negative"
\* for rating 0 and for any other rating that is not None, and no
\* assessment for rating None.
C19_FeedbackMapping ==
    \A c \in CallAt("feedback") :
        LET rating == events[c].feedback.rating
            body   == events[c].feedback.body
        IN  /\ Len(body) = 1
            /\ body[1].request_id = events[c].feedback.request_id
            /\ \E i \in 1..Len(history) :
                  /\ history[i].kind = "assistant"
                  /\ history[i].request_id # None
                  /\ body[1].request_id = history[i].request_id
            /\ body[1].retrieval_assessments = JsonDumps(<<>>)
            /\ body[1].text_assessments =
                  JsonDumps(IF rating = None THEN <<>>
                            ELSE IF rating = "1"
                            THEN <<[answer_correct |-> "positive", free_text_comment |-> None]>>
                            ELSE <<[answer_correct |-> "negative", free_text_comment |-> None]>>)

\* A thumbs-up on the first response, then the rating taken back.
C19_Witness ==
    /\ Len(events) = 2
    /\ events[1].feedback.rating = "1"
    /\ events[1].feedback.body[1].text_assessments =
          JsonDumps(<<[answer_correct |-> "positive", free_text_comment |-> None]>>)
    /\ events[2].feedback.rating = None
    /\ events[2].feedback.body[1].text_assessments = JsonDumps(<<>>)
    /\ events[2].feedback.body[1].request_id = "r0"

\* C20: every run of the feedback callback makes exactly one outbound call,
\* the feedback POST; the run ends with an exception exactly when that call
\* raised; and it changes nothing of the session.
C20_OneCallFailurePropagates ==
    [][/\ Len(events') = Len(events) + 1
       /\ SubSeq(events', 1, Len(events)) = events
       /\ events'[Len(events')].ev = "feedback"
       /\ events'[Len(events')].raised <=> pc' = "raised"
       /\ UNCHANGED <<service, history, turn_inputs, lookup, wire, handler_locals,
                      exc, response, sink_raised>>]_vars

\* A feedback call that raised after one that did not: two calls, and the
\* last run ended with the exception.
C20_Witness ==
    /\ Len(events) = 2
    /\ events[1].ev = "feedback" /\ ~events[1].raised
    /\ events[2].ev = "feedback" /\ events[2].raised
    /\ pc = "raised"

(***************************************************************************)
(* The chunk phases of a turn.                                             *)
(***************************************************************************)
IsChunk(e) == e.ev = "phase" /\ e.phase = "chunk"

\* The data of the chunk phases given to the sink so far, in order.
ChunkData ==
    LET chunks == SelectSeq(events, IsChunk)
    IN  [i \in 1..Len(chunks) |-> chunks[i].data]

\* Message list a is kept by message list b: b has every message of a at
\* the same position, under the same id, with a content that extends a's.
MessagesKept(a, b) ==
    /\ Len(a) <= Len(b)
    /\ \A k \in 1..Len(a) :
          /\ b[k].id = a[k].id
          /\ IsPrefix(a[k].content, b[k].content)

\* C21: of any two chunk phases of a turn, the later one carries a view at
\* least as complete as the earlier one: for chat-completions the
\* accumulated string extends the earlier string; for chat-agent
\* all_messages keeps every earlier message at its position with a content
\* that extends the earlier content; for responses-agent the running list
\* has the earlier list as a prefix.
C21_ChunksNeverRegress ==
    \A j \in 1..Len(ChunkData) : \A i \in 1..j :
        LET handler == handler_of(task_type)
        IN  /\ handler = "chat_completions" =>
                  IsPrefix(ChunkData[i].content, ChunkData[j].content)
            /\ handler = "chat_agent" =>
                  MessagesKept(ChunkData[i].messages, ChunkData[j].messages)
            /\ handler = "responses" =>
                  IsPrefix(ChunkData[i].messages, ChunkData[j].messages)

\* A chat-agent turn with three chunk phases: m1 alone, then m1 and m2,
\* then m1 grown with m2 behind it.
C21_Witness ==
    /\ handler_of(task_type) = "chat_agent"
    /\ Len(ChunkData) = 3
    /\ Len(ChunkData[1].messages) = 1
    /\ Len(ChunkData[2].messages) = 2
    /\ ChunkData[3].messages[1].content = <<"a", "a">>
    /\ ChunkData[3].messages[2].id = "m2"

(***************************************************************************)
(* Chunk phases against fragments, in a stream that has not raised.        *)
(***************************************************************************)
StreamNotRaised == pc \in {"streaming", "returned"} /\ ~exc.raised

\* An event whose item gives at least one message.
CarriesMessage(u) == u.shape = "type" /\ item_messages(u.item) # <<>>

\* The fragments after which the claim expects a chunk phase: every
\* fragment for chat-agent; for chat-completions the chunks whose choices[0]
\* has a non-empty content delta; for responses-agent the events from the
\* first one that carries a message on.
ChunkDue(handler) ==
    {k \in 1..Len(received) :
        IF handler = "chat_agent" THEN TRUE
        ELSE IF handler = "chat_completions"
        THEN FirstChoiceContent(received[k]) # <<>>
        ELSE \E j \in 1..k : CarriesMessage(received[j])}

\* C22 as claimed: a stream that has yielded N fragments without raising
\* has given exactly N chunk phases.
C22_ChunkPerFragment ==
    StreamNotRaised => Len(ChunkData) = Len(received)

\* C22: in a stream that has not raised, the chunk phases given so far are
\* exactly one for each fragment folded so far that is due one (so each is
\* given after its fragment and before the next is consumed), never more
\* than one per fragment: every fragment for chat-agent, the chunks with a
\* non-empty content delta for chat-completions, and for responses-agent
\* the events from the first that carries a message on.
C22_ChunkPerDueFragment ==
    StreamNotRaised =>
        /\ Len(ChunkData) = Cardinality(ChunkDue(handler_of(task_type)))
        /\ Len(ChunkData) <= Len(received)
        /\ Len(received) = yielded

\* A chat-completions stream of three chunks, one of them with an empty
\* content delta, has given two chunk phases.
C22_Witness ==
    /\ StreamNotRaised
    /\ handler_of(task_type) = "chat_completions"
    /\ Len(received) = 3
    /\ Len(ChunkData) = 2
    /\ ChunkData[2].content = <<"a", "a">>

\* The last non-empty databricks_request_id among the units, None if there
\* is none.
LastRequestId(units) ==
    LET Carries(u) == Truthy(u.databricks_request_id)
        carriers == SelectSeq(units, Carries)
    IN  IF carriers = <<>> THEN None
        ELSE carriers[Len(carriers)].databricks_request_id

\* C23: a response has one request_id field; after a stream that ended
\* normally it holds the last non-empty databricks_request_id of the chunks
\* of the stream, and None when no chunk carried one, however many messages
\* the response holds.
C23_LastRequestId ==
    (pc = "returned" /\ ~exc.raised) =>
        response.request_id = LastRequestId(received)

\* A chat-agent stream whose chunks carried r3, then r1, then r3 returned
\* two messages under request id r3.
C23_Witness ==
    /\ pc = "returned"
    /\ ~exc.raised
    /\ [i \in 1..Len(received) |-> received[i].databricks_request_id] = <<"r3", "r1", "r3">>
    /\ Len(response.messages) = 2
    /\ response.request_id = "r3"

(***************************************************************************)
(* A session of several turns.  Streamlit runs app.py again for every      *)
(* interaction: the locals of the last run are gone, st.session_state      *)
(* (the history, app.py 47-48) and the cached service stay.                *)
(***************************************************************************)
\* The turns begun in a history: its user messages.
Turns(h) == Len(SelectSeq(h, LAMBDA elem : elem.kind = "user"))

\* The script run of a turn has ended, by the append of app.py 148 or by
\* an exception; the next run starts with fresh locals and waits at the
\* chat input (app.py 115-116).
Rerun ==
    /\ pc \in {"returned", "raised"}
    /\ Turns(history) < MaxTurns
    /\ pc' = "idle"
    /\ user_token' = None
    /\ task_type' = None
    /\ input_messages' = <<>>
    /\ lookup' = NoLookup
    /\ stream_task' = None
    /\ consumed' = 0
    /\ yielded' = 0
    /\ last_unit' = FooUnit
    /\ received' = <<>>
    /\ accumulated_content' = <<>>
    /\ request_id' = None
    /\ message_buffers' = <<>>
    /\ all_messages' = <<>>
    /\ exc' = NoExc
    /\ events' = <<>>
    /\ response' = NoResponse
    /\ sink_raised' = FALSE
    /\ UNCHANGED <<service, history>>

\* The endpoint of the session is a chat endpoint or a chat agent; its
\* streams are made of two chat-agent chunks and may break; the answer to
\* the fallback call is a message or an error.
SessionOutcomes ==
    {[raises |-> "no", task |-> ChatCompletions],
     [raises |-> "no", task |-> ChatAgent]}

SessionUnits ==
    {DeltaUnit(ChatAgentMessage("assistant", <<"a">>, "m1", <<>>, None), "r3"),
     DeltaUnit(ChatAgentMessage("assistant", <<"b">>, "m2", <<>>, None), "r1")}

SessionResponses ==
    {ErrorResponse, ChoicesStrResponse("assistant", <<"y">>, Absent)}

InitSession ==
    /\ Init
    /\ history = <<>>
    /\ service.supports_feedback

NextSession ==
    \/ \E prompt \in Prompts, outcome \in SessionOutcomes :
          ChatInput(prompt, None, outcome)
    \/ query_and_process(FALSE)
    \/ \E outcome \in SessionOutcomes : query_endpoint_stream(outcome)
    \/ \E u \in SessionUnits : StreamChunkChatCompletions(u, FALSE)
    \/ \E u \in SessionUnits : StreamChunkChatAgent(u, FALSE)
    \/ StreamError
    \/ StreamEnd(FALSE)
    \/ Except(FALSE)
    \/ \E outcome \in SessionOutcomes : FallbackLookup(outcome)
    \/ \E res \in SessionResponses : QueryEndpoint(res, FALSE)
    \/ Rerun

SpecSession == InitSession /\ [][NextSession]_vars

\* While query_and_process runs, from its call to its end.
InTurn == pc \in {"call", "open", "streaming", "except", "fallback", "query"}

\* The stream call of the turn, made with the input_messages given to
\* query_and_process.
StreamCalls == SelectSeq(events, LAMBDA e : e.ev = "stream")

\* C24: no step of a session removes, replaces or reorders an element of
\* the history (the old history is a prefix of the new one), and the
\* input_messages given to query_and_process are the messages of all
\* history elements in order, the last being the new user message, which
\* is the last element of the history.
C24_HistoryAppendOnly ==
    /\ [][IsPrefix(history, history')]_vars
    /\ [](InTurn =>
            /\ input_messages = Flatten(history)
            /\ history[Len(history)].kind = "user"
            /\ input_messages[Len(input_messages)]
                  = Msg("user", history[Len(history)].content)
            /\ \A k \in 1..Len(StreamCalls) :
                  StreamCalls[k].messages = Flatten(history))

\* The second turn of a session whose first answer had two messages:
\* query_and_process is given four messages.
C24_Witness ==
    /\ pc = "open"
    /\ Len(history) = 3
    /\ Len(history[2].messages) = 2
    /\ Len(input_messages) = 4
    /\ input_messages[2].content = <<"a">>
    /\ input_messages[3].content = <<"b">>

\* C25: a stream line that is not valid JSON makes the streaming path raise
\* (and so leads to the fallback call) under both credential modes: once
\* such a line has been consumed the stream has failed, it is never
\* stepped over.  The generator is the one of the turn's task type.
C25_BadJsonFailsStream ==
    (stream_task = task_type /\ consumed > 0 /\ last_unit = BadJsonUnit) => exc.raised

\* A response object whose top-level shape the parser of the task type
\* does not know: for a chat task neither messages nor choices, or a choice
\* whose content is neither a string nor a list; for a responses agent an
\* object with no output field.
UnrecognizedResponse(task, res) ==
    /\ res.shape # "error"
    /\ IF task = ResponsesAgent THEN res.shape # "output"
       ELSE \/ res.shape \notin {"messages", "choices"}
            \/ res.shape = "choices" /\ res.content_kind \notin {"str", "list"}

\* C26: in the non-streaming call a response of unrecognized top-level
\* shape raises for every task type instead of returning a message list.
\* The call is the one for the turn's task type.
C26_UnrecognizedResponseRaises ==
    \A q \in CallAt("query") :
        (events[q].task = task_type
            /\ UnrecognizedResponse(events[q].task, events[q].answer))
        => events[q].raised

(***************************************************************************)
(* Termination of a turn.  query_and_process is straight-line code around  *)
(* one for loop over the stream: when the stream is finite and every       *)
(* transport call returns or raises, the statement the handler is at is    *)
(* eventually executed.  That is weak fairness of the turn's steps.        *)
(***************************************************************************)
\* The turns of the live specification: an endpoint of any of the three
\* task types whose stream has a text chunk, a chat-agent chunk, an output
\* item, or a line that is not JSON.
LiveOutcomes ==
    {[raises |-> "client", task |-> None],
     [raises |-> "no", task |-> ChatCompletions],
     [raises |-> "no", task |-> ChatAgent],
     [raises |-> "no", task |-> ResponsesAgent]}

LiveUnits ==
    {ChoicesUnit(<< <<"a">> >>, Absent),
     DeltaUnit(ChatAgentMessage("assistant", <<"b">>, "m2", <<>>, None), "r1"),
     EventUnit(ItemDone, FunctionCallItem("c1", "f", <<"x">>), "r3"),
     BadJsonUnit}

LiveResponses == {ErrorResponse, ChoicesStrResponse("assistant", <<"y">>, Absent)}

InitLive ==
    /\ Init
    /\ history = <<>>

NextLive ==
    \/ \E prompt \in Prompts, token \in Tokens, outcome \in LiveOutcomes :
          ChatInput(prompt, token, outcome)
    \/ \E sink_raises \in BOOLEAN : query_and_process(sink_raises)
    \/ \E outcome \in LiveOutcomes : query_endpoint_stream(outcome)
    \/ \E u \in LiveUnits, sink_raises \in BOOLEAN : StreamChunkChatCompletions(u, sink_raises)
    \/ \E u \in LiveUnits, sink_raises \in BOOLEAN : StreamChunkChatAgent(u, sink_raises)
    \/ \E u \in LiveUnits, sink_raises \in BOOLEAN : StreamChunkResponses(u, sink_raises)
    \/ \E u \in LiveUnits : StreamSkip(u)
    \/ \E u \in LiveUnits : StreamRaise(u)
    \/ StreamError
    \/ \E sink_raises \in BOOLEAN : StreamEnd(sink_raises)
    \/ \E sink_raises \in BOOLEAN : Except(sink_raises)
    \/ \E outcome \in LiveOutcomes : FallbackLookup(outcome)
    \/ \E res \in LiveResponses, sink_raises \in BOOLEAN : QueryEndpoint(res, sink_raises)

SpecLive == InitLive /\ [][NextLive]_vars /\ WF_vars(NextLive)

\* C27: a turn is sequential and terminates.  Once query_and_process is
\* called it eventually returns or raises; it has returned only with an
\* AssistantResponse in the history and 'complete' given to the sink; it
\* returns only from the end of the stream or, the stream having failed,
\* from the fallback call; and once the stream has raised or the turn is
\* over no further unit of the stream is consumed.
C27_TurnTerminates ==
    /\ (pc = "call") ~> TurnOver
    /\ [](pc = "returned" =>
            /\ PhaseAt("complete") # {}
            /\ history # <<>>
            /\ history[Len(history)] = response
            /\ response.kind = "assistant")
    /\ [][(pc # "returned" /\ pc' = "returned") =>
            \/ pc = "streaming" /\ ~exc.raised /\ consumed' = consumed
            \/ pc = "query" /\ exc.raised]_vars
    /\ [][(exc.raised \/ TurnOver) =>
            (consumed' = consumed /\ yielded' = yielded)]_vars

\* A turn that consumed three units of its stream, the last one breaking
\* it, and returned from the fallback call.
C27_Witness ==
    /\ pc = "returned"
    /\ exc.raised
    /\ consumed = 3
    /\ yielded = 2
    /\ CallAt("query") # {}

\* C28: when the stream failed and the fallback call succeeded, the
\* messages and the request_id of the returned AssistantResponse are the
\* ones the fallback call produced from its answer; nothing accumulated
\* from the chunks of the failed stream and no request id seen on them is
\* in the result.
C28_FallbackResultOnly ==
    (pc = "returned" /\ exc.raised) =>
        /\ Cardinality(CallAt("query")) = 1
        /\ \A q \in CallAt("query") :
              LET result == query_endpoint(events[q].task, events[q].answer)
              IN  /\ ~result.raises
                  /\ response.messages = result.messages
                  /\ response.request_id = result.request_id
                  /\ history[Len(history)].messages = result.messages
                  /\ history[Len(history)].request_id = result.request_id

\* A chat-completions stream gave content "a" under request id r3 and then
\* broke; the fallback answered "y" without a request id, and the response
\* holds "y" and no request id.
C28_Witness ==
    /\ pc = "returned"
    /\ exc.raised
    /\ handler_of(task_type) = "chat_completions"
    /\ Len(ChunkData) = 1
    /\ ChunkData[1].content = <<"a">>
    /\ request_id = "r3"
    /\ response.messages = <<Msg("assistant", <<"y">>)>>
    /\ response.request_id = None

\* The sink raised on the 'complete' of the streaming path: that phase is
\* in the log before 'error'.
RaisedOnComplete ==
    \E c \in PhaseAt("complete") : \E e \in PhaseAt("error") : c < e

\* C29: an exception of the sink on a chunk or complete phase of the
\* streaming path is handled as a stream failure.  It never leaves the
\* turn (a turn that ended with an exception of the sink did not end on a
\* chunk or on the complete of the stream); error is given to the sink,
\* then the fallback call is made after the stream call, and complete is
\* given after that call, a second time if the sink had raised on complete.
C29_SinkRaiseIsStreamFailure ==
    /\ exc.by_sink => (exc.raised /\ sink_raised)
    /\ (pc = "raised" /\ sink_raised) =>
          LET last == events[Len(events)]
          IN  /\ ~IsChunk(last)
              /\ (last.ev = "phase" /\ last.phase = "complete") =>
                    (Len(events) >= 2 /\ events[Len(events) - 1].ev = "query")
    /\ (exc.by_sink /\ pc \in {"fallback", "query", "returned"}) =>
          /\ Cardinality(PhaseAt("error")) = 1
          /\ \A e \in PhaseAt("error") :
                /\ e >= 2
                /\ events[e - 1].ev = "phase"
                /\ events[e - 1].phase \in {"chunk", "complete"}
    /\ (exc.by_sink /\ pc = "returned") =>
          /\ Cardinality(CallAt("stream")) = 1
          /\ Cardinality(CallAt("query")) = 1
          /\ \A q \in CallAt("query") :
                /\ \A e \in PhaseAt("error") : e < q
                /\ \A st \in CallAt("stream") : st < q
                /\ q + 1 = Len(events)
                /\ q + 1 \in PhaseAt("complete")
          /\ Cardinality(PhaseAt("complete")) = IF RaisedOnComplete THEN 2 ELSE 1

\* The sink raised on the complete of the stream: the turn returned having
\* given complete twice and requested the endpoint twice.
C29_Witness ==
    /\ pc = "returned"
    /\ exc.by_sink
    /\ Cardinality(PhaseAt("complete")) = 2
    /\ Cardinality(PhaseAt("chunk")) >= 1
    /\ CallAt("stream") # {}
    /\ CallAt("query") # {}

\* The turn failed: its stream raised and then the fallback call (its
\* lookup or its request) raised as well.
TurnFailed ==
    /\ pc = "raised"
    /\ exc.raised
    /\ \E i \in FallbackCalls : events[i].raised

\* C30: in a session, a failed turn leaves the user message it appended as
\* the last element of the history, with no AssistantResponse after it, and
\* the history stays so until the next chat input; the next turn is then
\* given input_messages whose last two messages are both user messages, so
\* the history does not alternate user message and assistant response.
C30_FailedTurnLeavesUserMessage ==
    /\ [](TurnFailed =>
            /\ history # <<>>
            /\ history[Len(history)].kind = "user"
            /\ Flatten(history) = input_messages)
    /\ [][(TurnFailed \/ (pc = "idle" /\ pc' = "idle")) => history' = history]_vars
    /\ [][(pc = "idle" /\ pc' = "call" /\ history # <<>>
              /\ history[Len(history)].kind = "user") =>
            LET n == Len(input_messages')
            IN  /\ n >= 2
                /\ input_messages'[n - 1].role = "user"
                /\ input_messages'[n].role = "user"
                /\ history'[Len(history') - 1].kind = "user"
                /\ history'[Len(history')].kind = "user"]_vars

\* The second turn of a session whose first turn failed: query_and_process
\* is given two user messages and nothing else.
C30_Witness ==
    /\ pc = "call"
    /\ Len(history) = 2
    /\ history[1].kind = "user"
    /\ history[2].kind = "user"
    /\ input_messages = <<Msg("user", <<"p">>), Msg("user", <<"p">>)>>

\* The positions of a chunk's all_messages that hold the given identity.
EntriesOf(data, message_id) ==
    {k \in 1..Len(data.messages) : data.messages[k].id = message_id}

\* The messages given with the last 'complete'.
CompleteMessages ==
    LET completes == SelectSeq(events, LAMBDA e : e.ev = "phase" /\ e.phase = "complete")
    IN  completes[Len(completes)].data.messages

\* C31: in a chat-agent stream every chunk phase carries as 'message' the
\* entry of its all_messages that has the chunk's message_id, and when the
\* stream ends normally after at least one fragment the list given with
\* complete, and returned in the AssistantResponse, is the all_messages of
\* the last chunk phase.
C31_CompleteIsLastChunk ==
    handler_of(task_type) = "chat_agent" =>
        /\ \A i \in 1..Len(ChunkData) :
              /\ Cardinality(EntriesOf(ChunkData[i], ChunkData[i].message_id)) = 1
              /\ \A k \in EntriesOf(ChunkData[i], ChunkData[i].message_id) :
                    ChunkData[i].messages[k] = ChunkData[i].message
        /\ (pc = "returned" /\ ~exc.raised /\ yielded >= 1) =>
              /\ Len(ChunkData) >= 1
              /\ CompleteMessages = ChunkData[Len(ChunkData)].messages
              /\ response.messages = ChunkData[Len(ChunkData)].messages

\* A chat-agent stream of three chunks for two identities returned: the
\* last chunk was for the first identity and carried its grown message.
C31_Witness ==
    /\ handler_of(task_type) = "chat_agent"
    /\ pc = "returned"
    /\ ~exc.raised
    /\ Len(ChunkData) = 3
    /\ Len(response.messages) = 2
    /\ ChunkData[3].message_id = "m1"
    /\ ChunkData[3].message.content = <<"a", "a">>
    /\ response.messages[1].content = <<"a", "a">>

(***************************************************************************)
(* The responses-agent adapter in both directions.  A turn whose stream    *)
(* breaks gets its answer from _query_responses_endpoint, which parses the *)
(* output items to messages; the messages stay in the history, and the     *)
(* next turn's request converts them back with                             *)
(* _convert_to_responses_format.                                           *)
(***************************************************************************)
\* Output items of the three types: a message with one non-empty
\* output_text part, a function call with and without arguments, and a
\* function call output.
RoundTripItems ==
    {MessageItem(<<OutputText(<<"a">>)>>),
     FunctionCallItem("c1", "f", <<"x">>),
     FunctionCallItem("c2", "g", <<>>),
     FunctionCallOutputItem("c1", <<"o">>)}

RECURSIVE ItemLists(_)
\* The item lists of the given length.
ItemLists(n) ==
    IF n = 0 THEN {<<>>}
    ELSE {Append(items, item) : items \in ItemLists(n - 1), item \in RoundTripItems}

\* The answers of the non-streaming call: the non-empty item lists.
RoundTripResponses ==
    {OutputResponse(items, "r2") : items \in UNION {ItemLists(n) : n \in 1..MaxItems}}

InitRoundTrip ==
    /\ Init
    /\ history = <<>>
    /\ service.supports_feedback

NextRoundTrip ==
    \/ \E prompt \in Prompts : ChatInput(prompt, None, ResponsesOutcome)
    \/ query_and_process(FALSE)
    \/ query_endpoint_stream(ResponsesOutcome)
    \/ StreamError
    \/ Except(FALSE)
    \/ FallbackLookup(ResponsesOutcome)
    \/ \E res \in RoundTripResponses : QueryEndpoint(res, FALSE)
    \/ Rerun

SpecRoundTrip == InitRoundTrip /\ [][NextRoundTrip]_vars

\* The output item _query_responses_endpoint reads from the dict of an
\* input item: item.get("type"), item.get("content", []) (the part list),
\* item.get("call_id"), item.get("name"), item.get("arguments", ""),
\* item.get("output", "").
OutputItemOf(input_item) ==
    [type |-> Get(input_item.type), content |-> input_item.parts,
     call_id |-> Get(input_item.call_id), name |-> Get(input_item.name),
     arguments |-> input_item.arguments, output |-> input_item.output]

\* Parsing, with the non-streaming parser, what _convert_to_responses_format
\* made of the messages.
ParsedAgain(messages) ==
    LET input == _convert_to_responses_format(messages)
    IN  parse_output_items([i \in 1..Len(input) |-> OutputItemOf(input[i])])

\* The messages a parser made: those of the assistant and of tools.
NotFromUser(messages) == SelectSeq(messages, LAMBDA m : m.role # "user")

\* C32: for a non-empty list of message items with one non-empty
\* output_text part, function_call items and function_call_output items,
\* the messages the non-streaming parser makes of it are a fixed point of
\* converting with _convert_to_responses_format and parsing again: same
\* roles, contents, tool calls and tool_call_ids in the same order.  The
\* same holds for the request of the next turn, whose input parses back to
\* the parser-made messages of the history.
C32_ResponsesRoundTrip ==
    /\ \A q \in CallAt("query") :
          ~events[q].raised =>
             LET parsed == parse_output_items(events[q].answer.output)
             IN  /\ pc = "returned" => response.messages = parsed
                 /\ ParsedAgain(parsed) = parsed
    /\ \A st \in CallAt("stream") :
          parse_output_items([i \in 1..Len(events[st].input) |->
                                OutputItemOf(events[st].input[i])])
            = NotFromUser(events[st].messages)

\* The second turn of a session whose first answer was a function call
\* followed by its output: the request of the stream call carries both
\* items between the two user messages.
C32_Witness ==
    /\ Len(history) = 3
    /\ history[2].messages =
          << [Msg("assistant", <<>>) EXCEPT !.tool_calls = <<ToolCall("c1", "f", <<"x">>)>>],
             [Msg("tool", <<"o">>) EXCEPT !.tool_call_id = "c1"] >>
    /\ \E st \in CallAt("stream") :
          /\ Len(events[st].input) = 4
          /\ events[st].input[2].type = "function_call"
          /\ events[st].input[2].call_id = "c1"
          /\ events[st].input[3].type = "function_call_output"

====
